---- MODULE Spec2Model ----
(***************************************************************************)
(* A model of fast-simplex-noise: the FastSimplexNoise constructor          *)
(* (option validation, Fisher-Yates shuffle, doubled tables), the simplex   *)
(* cell / corner / gradient selection of raw2D, raw3D and raw4D, and the    *)
(* octave loop of scaled2D, scaled3D and scaled4D.                          *)
(*                                                                         *)
(* JavaScript values are records [t, n, d]:                                 *)
(*   t = "num"       the finite number n/d (d > 0, lowest terms)            *)
(*   t = "nan"       NaN                                                    *)
(*   t = "inf"       +Infinity (n = 1) or -Infinity (n = -1)                *)
(*   t = "fn"        a function; as a random source it replays the draw     *)
(*                   sequence number n (d = 1: the platform's Math.random)  *)
(*   t = "str"       a string, t = "undef" undefined                        *)
(*   t = "absent"    the option object has no such own property            *)
(* Arithmetic on numbers is exact; IEEE-754 rounding is not modelled.       *)
(***************************************************************************)
EXTENDS Integers, Naturals, Sequences, FiniteSets, TLC

VARIABLES
  pc,          \* "new" | "shuffle" | "done" | "returned" | "failed"
  options,     \* the options argument of the constructor call
  error,       \* the message of the Error thrown, "" when none
  amplitude, frequency, octaves, persistence, random,   \* this.* fields
  min, max,    \* the constructor's locals captured by this.scale
  scale,       \* which closure this.scale is: "identity" | "linear" | "unset"
  p,           \* the 256-entry table being shuffled
  i,           \* the shuffle loop's index
  draws,       \* how many times this.random has been invoked
  perm, permMod12,   \* this.perm, this.permMod12
  result,      \* what the evaluation call in progress returned
  earlier      \* a generator constructed before this one, with its last result,
               \* or the tables of a factory's closure made before it

vars == <<pc, options, error, amplitude, frequency, octaves, persistence,
          random, min, max, scale, p, i, draws, perm, permMod12, result,
          earlier>>

(***************************************************************************)
(* Program constants                                                       *)
(***************************************************************************)
TableSize == 256
PermSize == 512
GradCount == 12
Grad4Count == 32

(***************************************************************************)
(* Bounds of the model                                                     *)
(***************************************************************************)
\* how many distinct in-range draw sequences the random sources replay
NumSeeds == 3
\* the most octaves a generator of SpecScaled sums
MaxOctaves == 8

(***************************************************************************)
(* JavaScript values                                                       *)
(***************************************************************************)
RECURSIVE Gcd(_, _)
Gcd(a, b) == IF b = 0 THEN a ELSE Gcd(b, a % b)

Abs(a) == IF a < 0 THEN -a ELSE a

\* the finite number n/d, d # 0, in lowest terms with a positive denominator
Num(n, d) ==
  LET g == Gcd(Abs(n), Abs(d))
      s == IF d < 0 THEN -1 ELSE 1
  IN  [t |-> "num", n |-> s * (n \div g), d |-> s * (d \div g)]

Whole(n) == [t |-> "num", n |-> n, d |-> 1]
NaN == [t |-> "nan", n |-> 0, d |-> 0]
PosInf == [t |-> "inf", n |-> 1, d |-> 0]
NegInf == [t |-> "inf", n |-> -1, d |-> 0]
Str == [t |-> "str", n |-> 0, d |-> 0]
Undefined == [t |-> "undef", n |-> 0, d |-> 0]
Absent == [t |-> "absent", n |-> 0, d |-> 0]
\* a caller's function replaying draw sequence s
Fn(s) == [t |-> "fn", n |-> s, d |-> 0]
\* Math.random, whose hidden state makes it replay sequence s
MathRandom(s) == [t |-> "fn", n |-> s, d |-> 1]

\* typeof v
TypeOf(v) ==
  CASE v.t \in {"num", "nan", "inf"} -> "number"
    [] v.t = "fn" -> "function"
    [] v.t = "str" -> "string"
    [] OTHER -> "undefined"

\* options.hasOwnProperty(name)
HasOwnProperty(o, name) == o[name].t # "absent"

\* isFinite(v) for a v of type number
IsFinite(v) == v.t = "num"

\* Math.floor(v) !== v is false exactly for the integers
IsInteger(v) == v.t = "num" /\ v.d = 1

\* the sign of a number: -1, 0, 1 (NaN has none)
Sign(v) == IF v.n < 0 THEN -1 ELSE IF v.n > 0 THEN 1 ELSE 0

\* a < b on numbers: false when either is NaN
JsLt(a, b) ==
  IF a.t = "nan" \/ b.t = "nan" THEN FALSE
  ELSE IF a.t = "inf" /\ b.t = "inf" THEN a.n < b.n
  ELSE IF a.t = "inf" THEN a.n < 0
  ELSE IF b.t = "inf" THEN b.n > 0
  ELSE LET g == Gcd(a.d, b.d)
       IN  a.n * (b.d \div g) < b.n * (a.d \div g)

\* a === b on numbers: false when either is NaN
JsEq(a, b) == a.t # "nan" /\ b.t # "nan" /\ a = b

\* a >= b on numbers: false when either is NaN
JsGe(a, b) == JsLt(b, a) \/ JsEq(a, b)

\* Math.floor of a finite number
Floor(v) == v.n \div v.d

\* a * b, a + b, a - b on finite numbers
Times(a, b) ==
  LET g1 == Gcd(Abs(a.n), b.d)
      g2 == Gcd(Abs(b.n), a.d)
  IN  Num((a.n \div g1) * (b.n \div g2), (a.d \div g2) * (b.d \div g1))
Plus(a, b) ==
  LET g == Gcd(a.d, b.d)
  IN  Num(a.n * (b.d \div g) + b.n * (a.d \div g), (a.d \div g) * b.d)
Minus(a, b) == Plus(a, [b EXCEPT !.n = -b.n])

\* a * b on numbers
JsMul(a, b) ==
  IF a.t = "nan" \/ b.t = "nan" THEN NaN
  ELSE IF a.t = "inf" \/ b.t = "inf"
    THEN IF Sign(a) * Sign(b) = 0 THEN NaN
         ELSE IF Sign(a) * Sign(b) > 0 THEN PosInf ELSE NegInf
  ELSE Times(a, b)

\* a + b on numbers
JsAdd(a, b) ==
  IF a.t = "nan" \/ b.t = "nan" THEN NaN
  ELSE IF a.t = "inf" /\ b.t = "inf" THEN (IF a.n = b.n THEN a ELSE NaN)
  ELSE IF a.t = "inf" THEN a
  ELSE IF b.t = "inf" THEN b
  ELSE Plus(a, b)

\* a - b on numbers
JsSub(a, b) == JsAdd(a, JsMul(Whole(-1), b))

\* a / b on numbers (a zero divisor is +0)
JsDiv(a, b) ==
  IF a.t = "nan" \/ b.t = "nan" THEN NaN
  ELSE IF a.t = "inf" /\ b.t = "inf" THEN NaN
  ELSE IF a.t = "inf"
    THEN (IF Sign(a) * Sign(b) < 0 THEN NegInf ELSE PosInf)
  ELSE IF b.t = "inf" THEN Whole(0)
  ELSE IF b.n = 0
    THEN (IF a.n = 0 THEN NaN ELSE IF a.n > 0 THEN PosInf ELSE NegInf)
  ELSE Times(a, Num(b.d, b.n))

(***************************************************************************)
(* Random sources.  A source is a function of no arguments; the k-th call   *)
(* (k = 0, 1, ...) of a source replaying sequence s returns DrawOf(s, k).   *)
(* Sequences 0 .. NumSeeds-1 stay in [0,1); sequence OutOfRangeSeed         *)
(* returns 1, which the documentation of options.random excludes.          *)
(***************************************************************************)
Seeds == 0 .. (NumSeeds - 1)
OutOfRangeSeed == NumSeeds

DrawOf(s, k) ==
  IF s = OutOfRangeSeed THEN Whole(1)
  ELSE IF s = 0 THEN Whole(0)
  ELSE IF s = 1 THEN Num(TableSize - 1, TableSize)
  ELSE Num((s * 73 + k * (2 * s + 1) * 29 + k * k) % TableSize, TableSize)

\* every draw the shuffle takes from sequence s lies in [0,1)
InUnitInterval(s) ==
  \A k \in 0 .. (TableSize - 2) :
    /\ ~JsLt(DrawOf(s, k), Whole(0))
    /\ JsLt(DrawOf(s, k), Whole(1))

(***************************************************************************)
(* The constructor, lines 54-101: option validation                         *)
(***************************************************************************)
OptionNames ==
  {"amplitude", "frequency", "octaves", "persistence", "random", "min", "max"}

\* typeof options[name] !== 'number', for a supplied option
NotANumber(o, name) == HasOwnProperty(o, name) /\ TypeOf(o[name]) # "number"

\* a faulty variant of lines 66-68: only the typeof check is made
OctavesRejectedOnType(o) ==
  HasOwnProperty(o, "octaves") /\ TypeOf(o.octaves) # "number"

\* lines 66-68: the three ways options.octaves is rejected
OctavesRejected(o) ==
  /\ HasOwnProperty(o, "octaves")
  /\ \/ TypeOf(o.octaves) # "number"
     \/ ~IsFinite(o.octaves)
     \/ ~IsInteger(o.octaves)

\* line 81
RandomRejected(o) == HasOwnProperty(o, "random") /\ TypeOf(o.random) # "function"

\* the locals min and max, lines 85-95, once their type checks passed
EffectiveMin(o) == IF HasOwnProperty(o, "min") THEN o.min ELSE Whole(-1)
EffectiveMax(o) == IF HasOwnProperty(o, "max") THEN o.max ELSE Whole(1)

\* line 97: min >= max
RangeRejected(lmin, lmax) == JsGe(lmin, lmax)

\* the checks without the last one, min >= max
FailedAtTypesOnly(o) ==
  IF NotANumber(o, "amplitude") THEN 1
  ELSE IF NotANumber(o, "frequency") THEN 2
  ELSE IF OctavesRejected(o) THEN 3
  ELSE IF NotANumber(o, "persistence") THEN 4
  ELSE IF RandomRejected(o) THEN 5
  ELSE IF NotANumber(o, "min") THEN 6
  ELSE IF NotANumber(o, "max") THEN 7
  ELSE 0

\* the checks in the order the constructor makes them: the number of the
\* first one that throws, 0 when none does
FailedAt(o) ==
  IF NotANumber(o, "amplitude") THEN 1
  ELSE IF NotANumber(o, "frequency") THEN 2
  ELSE IF OctavesRejected(o) THEN 3
  ELSE IF NotANumber(o, "persistence") THEN 4
  ELSE IF RandomRejected(o) THEN 5
  ELSE IF NotANumber(o, "min") THEN 6
  ELSE IF NotANumber(o, "max") THEN 7
  ELSE IF RangeRejected(EffectiveMin(o), EffectiveMax(o)) THEN 8
  ELSE 0

\* the message of the Error the failing check throws (line 97's message
\* without the two interpolated values)
ErrorMessage(f) ==
  CASE f = 1 -> "options.amplitude must be a number"
    [] f = 2 -> "options.frequency must be a number"
    [] f = 3 -> "options.octaves must be an integer"
    [] f = 4 -> "options.persistence must be a number"
    [] f = 5 -> "options.random must be a function"
    [] f = 6 -> "options.min must be a number"
    [] f = 7 -> "options.max must be a number"
    [] f = 8 -> "options.min must be less than options.max"
    [] OTHER -> ""

\* a faulty variant: the supplied value is dropped and the default kept
AssignedDefault(o, name, default, k, f) ==
  IF f # 0 /\ f <= k THEN Undefined ELSE default

\* a faulty variant: options.random is checked but this.random keeps
\* Math.random
AssignedButRandom(o, name, default, k, f) ==
  IF f # 0 /\ f <= k THEN Undefined
  ELSE IF HasOwnProperty(o, name) /\ name # "random" THEN o[name] ELSE default

\* the value a field holds after the constructor ran up to a throw at check
\* f (0: no throw): assigned by block number k iff that block completed
Assigned(o, name, default, k, f) ==
  IF f # 0 /\ f <= k THEN Undefined
  ELSE IF HasOwnProperty(o, name) THEN o[name] ELSE default

\* this.scale, lines 99-101: the identity closure exactly for min -1, max 1
ScaleFor(lmin, lmax) ==
  IF JsEq(lmin, Whole(-1)) /\ JsEq(lmax, Whole(1)) THEN "identity" ELSE "linear"

(***************************************************************************)
(* The constructor, lines 103-120: the shuffle and the doubled tables.      *)
(* makeNoise2D, makeNoise3D and makeNoise4D build p, perm and permMod12     *)
(* with the same statements.                                                *)
(***************************************************************************)
\* an element read from a Uint8Array of the given length: undefined outside
Load(a, len, k) == IF k \in 0 .. (len - 1) THEN Whole(a[k]) ELSE Undefined

\* the byte a Uint8Array stores for a value: undefined is stored as 0
ToUint8(v) == IF v.t = "num" THEN Floor(v) % 256 ELSE 0

\* a[k] = v on a Uint8Array: a store outside the array is ignored
Store(a, len, k, v) ==
  IF k \in 0 .. (len - 1) THEN [a EXCEPT ![k] = ToUint8(v)] ELSE a

\* line 104: p[i] = i
InitialTable == [k \in 0 .. (TableSize - 1) |-> k]

\* a faulty variant of line 109: Math.floor(i * this.random())
SwapIndexBelow(ix, r) == Floor(Times(Whole(ix), r))

\* line 109: n = Math.floor((i + 1) * this.random()), r the value drawn
SwapIndex(ix, r) == Floor(Times(Whole(ix + 1), r))

\* a faulty variant of lines 110-112: the store p[n] = q is missing
SwapWithoutStore(tbl, ix, nx) ==
  Store(tbl, TableSize, ix, Load(tbl, TableSize, nx))

\* lines 110-112: q = p[i]; p[i] = p[n]; p[n] = q
Swap(tbl, ix, nx) ==
  LET q == Load(tbl, TableSize, ix)
      t1 == Store(tbl, TableSize, ix, Load(tbl, TableSize, nx))
  IN  Store(t1, TableSize, nx, q)

\* i & 255 on an integer (two's complement: the residue modulo 256)
And255(k) == k % 256

\* lines 118-119
\* a faulty variant of line 118: p[i] read without the mask
PermOfUnmasked(tbl) ==
  [k \in 0 .. (PermSize - 1) |-> ToUint8(Load(tbl, TableSize, k))]

\* a doubled table whose second half repeats the first backwards
PermOfMirrored(tbl) ==
  [k \in 0 .. (PermSize - 1) |->
     IF k < TableSize THEN tbl[k] ELSE tbl[PermSize - 1 - k]]

PermOf(tbl) == [k \in 0 .. (PermSize - 1) |-> tbl[And255(k)]]
\* a second table that copies perm without reducing it
PermMod12Unreduced(pm) == [k \in 0 .. (PermSize - 1) |-> pm[k]]

PermMod12Of(pm) == [k \in 0 .. (PermSize - 1) |-> pm[k] % GradCount]

EmptyTable == <<>>

(***************************************************************************)
(* Numbers r + c * sqrt(rad), r and c finite numbers: the skew and unskew   *)
(* factors of raw2D (rad = 3) and raw4D (rad = 5) are of this form, and so  *)
(* is everything the kernels compare or floor.                              *)
(***************************************************************************)
Surd(r, c) == [r |-> r, c |-> c]
OfNum(q) == Surd(q, Whole(0))
SPlus(a, b) == Surd(Plus(a.r, b.r), Plus(a.c, b.c))
SMinus(a, b) == Surd(Minus(a.r, b.r), Minus(a.c, b.c))
\* q * a, q a finite number
SScale(q, a) == Surd(Times(q, a.r), Times(q, a.c))

\* the sign of r + c * sqrt(rad), rad not a square
SSign(a, rad) ==
  LET sr == Sign(a.r)
      sc == Sign(a.c)
  IN  IF sc = 0 THEN sr
      ELSE IF sr = 0 \/ sr = sc THEN sc
      ELSE IF (a.r.n * a.c.d) * (a.r.n * a.c.d)
                > rad * (a.c.n * a.r.d) * (a.c.n * a.r.d)
        THEN sr ELSE sc

\* a > b, a >= b, a < b
SGt(a, b, rad) == SSign(SMinus(a, b), rad) > 0
SGe(a, b, rad) == SSign(SMinus(a, b), rad) >= 0
SLt(a, b, rad) == SSign(SMinus(a, b), rad) < 0

\* the greatest r in lo .. hi-1 with r * r <= n, given lo * lo <= n < hi * hi
RECURSIVE IsqrtIn(_, _, _)
IsqrtIn(n, lo, hi) ==
  IF hi - lo <= 1 THEN lo
  ELSE LET mid == (lo + hi) \div 2
       IN  IF mid * mid <= n THEN IsqrtIn(n, mid, hi) ELSE IsqrtIn(n, lo, mid)

Isqrt(n) == IsqrtIn(n, 0, IF n < 46340 THEN n + 1 ELSE 46340)

\* Math.floor(r + c * sqrt(rad))
SFloor(a, rad) ==
  LET m == a.r.n * a.c.d
      e == a.c.n * a.r.d
      root == Isqrt(rad * e * e)
      fl == IF e >= 0 THEN root
            ELSE IF root * root = rad * e * e THEN -root ELSE -root - 1
  IN  (m + fl) \div (a.r.d * a.c.d)

(***************************************************************************)
(* Reads of perm and permMod12 in the kernels.  A read outside a Uint8Array *)
(* gives undefined, an index computed from undefined is NaN, and the read   *)
(* at it gives undefined again: NoEntry stands for all of these.            *)
(***************************************************************************)
NoEntry == PermSize + TableSize

\* tbl[k]
Entry(tbl, k) == IF k \in DOMAIN tbl THEN tbl[k] ELSE NoEntry

\* base + v, v read from a table
Index(base, v) == IF v = NoEntry THEN NoEntry ELSE base + v

\* v % m, v read from a table
Remainder(v, m) == IF v = NoEntry THEN NoEntry ELSE v % m

(***************************************************************************)
(* raw2D, lines 166-192: the cell, the middle corner, the gradient indices  *)
(***************************************************************************)
\* 0.5 * (Math.sqrt(3.0) - 1.0)
F2 == Surd(Num(-1, 2), Num(1, 2))
\* line 33: (3.0 - Math.sqrt(3.0)) / 6.0
G2 == Surd(Num(1, 2), Num(-1, 6))

\* a middle corner chosen by x0 >= y0
MiddleOnTie2D(x0, y0) ==
  <<IF SLt(x0, y0, 3) THEN 0 ELSE 1, IF SLt(x0, y0, 3) THEN 1 ELSE 0>>

\* lines 178-179: the offsets (i1, j1) of the middle corner
Middle2D(x0, y0) ==
  <<IF SGt(x0, y0, 3) THEN 1 ELSE 0, IF SGt(x0, y0, 3) THEN 0 ELSE 1>>

\* lines 190-192: the indices perm and then permMod12 are read at in
\* permMod12[ii + di + perm[jj + dj]]
Reads2D(pm, ii, jj, di, dj) ==
  LET r1 == jj + dj
  IN  <<r1, Index(ii + di, Entry(pm, r1))>>

\* lines 190-192: permMod12[ii + di + perm[jj + dj]]
Gi2D(pm, pm12, ii, jj, di, dj) == Entry(pm12, Reads2D(pm, ii, jj, di, dj)[2])

Raw2D(pm, pm12, x, y) ==
  LET s == SScale(Plus(x, y), F2)
      ci == SFloor(SPlus(OfNum(x), s), 3)
      cj == SFloor(SPlus(OfNum(y), s), 3)
      t == SScale(Whole(ci + cj), G2)
      X0 == SMinus(OfNum(Whole(ci)), t)
      Y0 == SMinus(OfNum(Whole(cj)), t)
      x0 == SMinus(OfNum(x), X0)
      y0 == SMinus(OfNum(y), Y0)
      c1 == Middle2D(x0, y0)
      ii == And255(ci)
      jj == And255(cj)
  IN  [op |-> "raw2D",
       at |-> <<x, y>>,
       cell |-> <<ci, cj>>,
       origin |-> <<x0, y0>>,
       corners |-> <<<<0, 0>>, c1, <<1, 1>>>>,
       gi |-> <<Gi2D(pm, pm12, ii, jj, 0, 0),
                Gi2D(pm, pm12, ii, jj, c1[1], c1[2]),
                Gi2D(pm, pm12, ii, jj, 1, 1)>>,
       reads |-> <<Reads2D(pm, ii, jj, 0, 0),
                   Reads2D(pm, ii, jj, c1[1], c1[2]),
                   Reads2D(pm, ii, jj, 1, 1)>>]

(***************************************************************************)
(* raw3D, lines 207-265                                                     *)
(***************************************************************************)
\* line 34: 1.0 / 6.0
G3 == Num(1, 6)

\* lines 224-246: the offsets of the second and of the third corner
\* an ordering whose first test is x0 > y0
CornersStrictFirst3D(x0, y0, z0) ==
  IF JsLt(y0, x0)
    THEN IF JsGe(y0, z0) THEN <<<<1, 0, 0>>, <<1, 1, 0>>>>
         ELSE IF JsGe(x0, z0) THEN <<<<1, 0, 0>>, <<1, 0, 1>>>>
         ELSE <<<<0, 0, 1>>, <<1, 0, 1>>>>
    ELSE IF JsLt(y0, z0) THEN <<<<0, 0, 1>>, <<0, 1, 1>>>>
         ELSE IF JsLt(x0, z0) THEN <<<<0, 1, 0>>, <<0, 1, 1>>>>
         ELSE <<<<0, 1, 0>>, <<1, 1, 0>>>>

Corners3D(x0, y0, z0) ==
  IF JsGe(x0, y0)
    THEN IF JsGe(y0, z0) THEN <<<<1, 0, 0>>, <<1, 1, 0>>>>
         ELSE IF JsGe(x0, z0) THEN <<<<1, 0, 0>>, <<1, 0, 1>>>>
         ELSE <<<<0, 0, 1>>, <<1, 0, 1>>>>
    ELSE IF JsLt(y0, z0) THEN <<<<0, 0, 1>>, <<0, 1, 1>>>>
         ELSE IF JsLt(x0, z0) THEN <<<<0, 1, 0>>, <<0, 1, 1>>>>
         ELSE <<<<0, 1, 0>>, <<1, 1, 0>>>>

\* lines 262-265: the indices read at, innermost first
Reads3D(pm, ii, jj, kk, o) ==
  LET r1 == kk + o[3]
      r2 == Index(jj + o[2], Entry(pm, r1))
  IN  <<r1, r2, Index(ii + o[1], Entry(pm, r2))>>

\* lines 262-265: permMod12[ii + di + perm[jj + dj + perm[kk + dk]]]
Gi3D(pm, pm12, ii, jj, kk, o) == Entry(pm12, Reads3D(pm, ii, jj, kk, o)[3])

Raw3D(pm, pm12, x, y, z) ==
  LET s == Times(Plus(Plus(x, y), z), Num(1, 3))
      ci == Floor(Plus(x, s))
      cj == Floor(Plus(y, s))
      ck == Floor(Plus(z, s))
      t == Times(Whole(ci + cj + ck), G3)
      x0 == Minus(x, Minus(Whole(ci), t))
      y0 == Minus(y, Minus(Whole(cj), t))
      z0 == Minus(z, Minus(Whole(ck), t))
      c == Corners3D(x0, y0, z0)
      ii == And255(ci)
      jj == And255(cj)
      kk == And255(ck)
  IN  [op |-> "raw3D",
       at |-> <<x, y, z>>,
       cell |-> <<ci, cj, ck>>,
       origin |-> <<x0, y0, z0>>,
       corners |-> <<<<0, 0, 0>>, c[1], c[2], <<1, 1, 1>>>>,
       gi |-> <<Gi3D(pm, pm12, ii, jj, kk, <<0, 0, 0>>),
                Gi3D(pm, pm12, ii, jj, kk, c[1]),
                Gi3D(pm, pm12, ii, jj, kk, c[2]),
                Gi3D(pm, pm12, ii, jj, kk, <<1, 1, 1>>)>>,
       reads |-> <<Reads3D(pm, ii, jj, kk, <<0, 0, 0>>),
                   Reads3D(pm, ii, jj, kk, c[1]),
                   Reads3D(pm, ii, jj, kk, c[2]),
                   Reads3D(pm, ii, jj, kk, <<1, 1, 1>>)>>]

(***************************************************************************)
(* raw4D, lines 282-366                                                     *)
(***************************************************************************)
\* (Math.sqrt(5.0) - 1.0) / 4.0
F4 == Surd(Num(-1, 4), Num(1, 4))
\* line 35: (5.0 - Math.sqrt(5.0)) / 20.0
G4 == Surd(Num(1, 4), Num(-1, 20))

\* lines 302-317: the six comparisons; <<rankx, ranky, rankz, rankw>>
\* a ranking in which a comparison of equal coordinates raises neither rank
RanksWithoutTies4D(x0, y0, z0, w0) ==
  LET b(c) == IF c THEN 1 ELSE 0
  IN  << b(SGt(x0, y0, 5)) + b(SGt(x0, z0, 5)) + b(SGt(x0, w0, 5)),
         b(SGt(y0, x0, 5)) + b(SGt(y0, z0, 5)) + b(SGt(y0, w0, 5)),
         b(SGt(z0, x0, 5)) + b(SGt(z0, y0, 5)) + b(SGt(z0, w0, 5)),
         b(SGt(w0, x0, 5)) + b(SGt(w0, y0, 5)) + b(SGt(w0, z0, 5)) >>

Ranks4D(x0, y0, z0, w0) ==
  LET xy == SGt(x0, y0, 5)
      xz == SGt(x0, z0, 5)
      xw == SGt(x0, w0, 5)
      yz == SGt(y0, z0, 5)
      yw == SGt(y0, w0, 5)
      zw == SGt(z0, w0, 5)
      b(c) == IF c THEN 1 ELSE 0
  IN  << b(xy) + b(xz) + b(xw),
         b(~xy) + b(yz) + b(yw),
         b(~xz) + b(~yz) + b(zw),
         b(~xw) + b(~yw) + b(~zw) >>

\* lines 324-337: the offsets of the corner whose threshold is th
Threshold4D(rank, th) == [a \in 1 .. 4 |-> IF rank[a] >= th THEN 1 ELSE 0]

\* lines 362-366: the indices read at, innermost first
Reads4D(pm, ii, jj, kk, ll, o) ==
  LET r1 == ll + o[4]
      r2 == Index(kk + o[3], Entry(pm, r1))
      r3 == Index(jj + o[2], Entry(pm, r2))
  IN  <<r1, r2, r3, Index(ii + o[1], Entry(pm, r3))>>

\* lines 362-366: perm[ii + di + perm[jj + dj + perm[kk + dk + perm[ll + dl]]]] % 32
Gi4D(pm, ii, jj, kk, ll, o) ==
  Remainder(Entry(pm, Reads4D(pm, ii, jj, kk, ll, o)[4]), Grad4Count)

Raw4D(pm, x, y, z, w) ==
  LET s == SScale(Plus(Plus(Plus(x, y), z), w), F4)
      ci == SFloor(SPlus(OfNum(x), s), 5)
      cj == SFloor(SPlus(OfNum(y), s), 5)
      ck == SFloor(SPlus(OfNum(z), s), 5)
      cl == SFloor(SPlus(OfNum(w), s), 5)
      t == SScale(Whole(ci + cj + ck + cl), G4)
      x0 == SMinus(OfNum(x), SMinus(OfNum(Whole(ci)), t))
      y0 == SMinus(OfNum(y), SMinus(OfNum(Whole(cj)), t))
      z0 == SMinus(OfNum(z), SMinus(OfNum(Whole(ck)), t))
      w0 == SMinus(OfNum(w), SMinus(OfNum(Whole(cl)), t))
      rank == Ranks4D(x0, y0, z0, w0)
      c1 == Threshold4D(rank, 3)
      c2 == Threshold4D(rank, 2)
      c3 == Threshold4D(rank, 1)
      ii == And255(ci)
      jj == And255(cj)
      kk == And255(ck)
      ll == And255(cl)
  IN  [op |-> "raw4D",
       at |-> <<x, y, z, w>>,
       cell |-> <<ci, cj, ck, cl>>,
       origin |-> <<x0, y0, z0, w0>>,
       rank |-> rank,
       corners |-> <<<<0, 0, 0, 0>>, c1, c2, c3, <<1, 1, 1, 1>>>>,
       gi |-> <<Gi4D(pm, ii, jj, kk, ll, <<0, 0, 0, 0>>),
                Gi4D(pm, ii, jj, kk, ll, c1),
                Gi4D(pm, ii, jj, kk, ll, c2),
                Gi4D(pm, ii, jj, kk, ll, c3),
                Gi4D(pm, ii, jj, kk, ll, <<1, 1, 1, 1>>)>>,
       reads |-> <<Reads4D(pm, ii, jj, kk, ll, <<0, 0, 0, 0>>),
                   Reads4D(pm, ii, jj, kk, ll, c1),
                   Reads4D(pm, ii, jj, kk, ll, c2),
                   Reads4D(pm, ii, jj, kk, ll, c3),
                   Reads4D(pm, ii, jj, kk, ll, <<1, 1, 1, 1>>)>>]

(***************************************************************************)
(* scaled2D, scaled3D, scaled4D, lines 393-439.  The three loops are the    *)
(* same text but for the kernel called.  What the kernel returns is an     *)
(* input here: vals[k] is the value of the k-th kernel call (k = 0, 1, ..)  *)
(* whenever its coordinates are finite; a kernel called with a NaN or an    *)
(* infinite coordinate returns NaN (its skew sum, cell and distances are    *)
(* then NaN).                                                               *)
(***************************************************************************)
KernelReturn(c, v) ==
  IF \A a \in DOMAIN c : c[a].t = "num" THEN v ELSE NaN

\* a faulty variant of lines 394-397: maxAmplitude starts at the amplitude
OctaveStartFromAmplitude(amp, freq) ==
  [i |-> 0, amplitude |-> amp, frequency |-> freq,
   maxAmplitude |-> amp, noise |-> Whole(0), calls |-> <<>>, kernel |-> <<>>]

\* lines 394-397: the loop's variables before its first iteration
OctaveStart(amp, freq) ==
  [i |-> 0, amplitude |-> amp, frequency |-> freq,
   maxAmplitude |-> Whole(0), noise |-> Whole(0), calls |-> <<>>, kernel |-> <<>>]

\* a faulty variant of lines 400-403: the frequency is doubled before the
\* kernel is called
OctaveBodyDoublingFirst(st, at, pers, v) ==
  LET f == JsMul(st.frequency, Whole(2))
      c == [a \in DOMAIN at |-> JsMul(at[a], f)]
      r == KernelReturn(c, v)
  IN  [i |-> st.i + 1,
       noise |-> JsAdd(st.noise, JsMul(r, st.amplitude)),
       maxAmplitude |-> JsAdd(st.maxAmplitude, st.amplitude),
       amplitude |-> JsMul(st.amplitude, pers),
       frequency |-> f,
       calls |-> Append(st.calls, c),
       kernel |-> Append(st.kernel, r)]

\* lines 400-403: one iteration at the point `at`, the kernel returning v
OctaveBody(st, at, pers, v) ==
  LET c == [a \in DOMAIN at |-> JsMul(at[a], st.frequency)]
      r == KernelReturn(c, v)
  IN  [i |-> st.i + 1,
       noise |-> JsAdd(st.noise, JsMul(r, st.amplitude)),
       maxAmplitude |-> JsAdd(st.maxAmplitude, st.amplitude),
       amplitude |-> JsMul(st.amplitude, pers),
       frequency |-> JsMul(st.frequency, Whole(2)),
       calls |-> Append(st.calls, c),
       kernel |-> Append(st.kernel, r)]

\* line 399: for (let i = 0; i < this.octaves; i++)
RECURSIVE OctaveLoop(_, _, _, _, _)
OctaveLoop(st, oct, at, pers, vals) ==
  IF st.i < oct
    THEN OctaveLoop(OctaveBody(st, at, pers, vals[st.i]), oct, at, pers, vals)
    ELSE st

\* a faulty variant of line 101: value / 2 in place of (value + 1) / 2
ApplyScaleUnshifted(kind, lmin, lmax, v) ==
  IF kind = "identity" THEN v
  ELSE JsAdd(lmin, JsMul(JsDiv(v, Whole(2)), JsSub(lmax, lmin)))

\* lines 99-101: this.scale(value)
ApplyScale(kind, lmin, lmax, v) ==
  IF kind = "identity" THEN v
  ELSE JsAdd(lmin, JsMul(JsDiv(JsAdd(v, Whole(1)), Whole(2)), JsSub(lmax, lmin)))

\* line 406: this.scale(noise / maxAmplitude)
ScaledReturn(st, kind, lmin, lmax) ==
  ApplyScale(kind, lmin, lmax, JsDiv(st.noise, st.maxAmplitude))

\* what a scaled call at `at` returns on a generator with the given fields
ScaledND(name, gen, at, vals) ==
  LET st == OctaveLoop(OctaveStart(gen.amplitude, gen.frequency),
                       gen.octaves.n, at, gen.persistence, vals)
  IN  [op |-> name, at |-> at, calls |-> st.calls, kernel |-> st.kernel,
       noise |-> st.noise, maxAmplitude |-> st.maxAmplitude,
       value |-> ScaledReturn(st, gen.scale, gen.min, gen.max)]

(***************************************************************************)
(* The tables a whole constructor run builds from draw sequence s           *)
(***************************************************************************)
\* the iterations i = hi, hi - 1, ..., lo of the loop of lines 108-113 on
\* table tbl, the draws of sequence s: the first half of the iterations,
\* then the second half on the table the first half leaves.  The iteration
\* for index i uses draw number TableSize - 1 - i.
RECURSIVE ShuffleSpan(_, _, _, _)
ShuffleSpan(tbl, hi, lo, s) ==
  IF hi < lo \/ hi \notin DOMAIN tbl
    THEN tbl
    ELSE IF hi = lo
      THEN Swap(tbl, hi, SwapIndex(hi, DrawOf(s, TableSize - 1 - hi)))
      ELSE LET mid == (hi + lo + 1) \div 2
           IN  ShuffleSpan(ShuffleSpan(tbl, hi, mid, s), mid - 1, lo, s)

Shuffled == [s \in Seeds \cup {OutOfRangeSeed} |->
               ShuffleSpan(InitialTable, TableSize - 1, 1, s)]

(***************************************************************************)
(* The constructor call, in the steps its calls to this.random divide it    *)
(* into: Begin (lines 54-104), one ShuffleStep per loop iteration (lines    *)
(* 108-113), BuildTables (lines 115-120).                                   *)
(***************************************************************************)
NoGenerator == [options |-> Undefined, random |-> Undefined, perm |-> EmptyTable,
                permMod12 |-> EmptyTable, result |-> Undefined]

Init ==
  /\ pc = "new"
  /\ options = Undefined
  /\ error = ""
  /\ amplitude = Undefined /\ frequency = Undefined /\ octaves = Undefined
  /\ persistence = Undefined /\ random = Undefined
  /\ min = Undefined /\ max = Undefined /\ scale = "unset"
  /\ p = EmptyTable /\ i = 0 /\ draws = 0
  /\ perm = EmptyTable /\ permMod12 = EmptyTable
  /\ result = Undefined
  /\ earlier = NoGenerator

\* new FastSimplexNoise(o), up to the first call of this.random; s is the
\* sequence Math.random would replay
Begin(o, s) ==
  LET f == FailedAt(o) IN
  /\ pc = "new"
  /\ options' = o
  /\ error' = ErrorMessage(f)
  /\ amplitude' = Assigned(o, "amplitude", Whole(1), 1, f)
  /\ frequency' = Assigned(o, "frequency", Whole(1), 2, f)
  /\ octaves' = Assigned(o, "octaves", Whole(1), 3, f)
  /\ persistence' = Assigned(o, "persistence", Num(1, 2), 4, f)
  /\ random' = Assigned(o, "random", MathRandom(s), 5, f)
  /\ min' = Assigned(o, "min", Whole(-1), 6, f)
  /\ max' = Assigned(o, "max", Whole(1), 7, f)
  /\ IF f = 0
       THEN /\ pc' = "shuffle"
            /\ scale' = ScaleFor(EffectiveMin(o), EffectiveMax(o))
            /\ p' = InitialTable
            /\ i' = TableSize - 1
       ELSE /\ pc' = "failed"
            /\ UNCHANGED <<scale, p, i>>
  /\ UNCHANGED <<draws, perm, permMod12, result, earlier>>

\* one iteration of the loop of lines 108-113
ShuffleStep ==
  /\ pc = "shuffle"
  /\ i > 0
  /\ LET n == SwapIndex(i, DrawOf(random.n, draws))
     IN  p' = Swap(p, i, n)
  /\ i' = i - 1
  /\ draws' = draws + 1
  /\ UNCHANGED <<pc, options, error, amplitude, frequency, octaves, persistence,
                 random, min, max, scale, perm, permMod12, result, earlier>>

\* the loop's exit and lines 115-120; the constructor returns
BuildTables ==
  /\ pc = "shuffle"
  /\ i = 0
  /\ perm' = PermOf(p)
  /\ permMod12' = PermMod12Of(PermOf(p))
  /\ pc' = "done"
  /\ UNCHANGED <<options, error, amplitude, frequency, octaves, persistence,
                 random, min, max, scale, p, i, draws, result, earlier>>

(***************************************************************************)
(* The option objects the constructor is called with                        *)
(***************************************************************************)
NoOptions == [name \in OptionNames |-> Absent]

\* values of type number
Numbers ==
  {Whole(0), Whole(1), Whole(2), Whole(-1), Num(1, 2), Num(3, 4), NaN, PosInf, NegInf}
\* values that are neither numbers nor functions
Others == {Str, Undefined}
\* what options.octaves is tried with
OctaveValues ==
  {Whole(1), Whole(2), Whole(4), Whole(0), Whole(-3), Num(3, 2), NaN, PosInf}
\* what options.min and options.max are tried with
RangeValues ==
  {Whole(-1), Whole(0), Whole(1), Whole(255), Num(-1, 2), NaN, NegInf, PosInf, Str}
\* what options.random is tried with
RandomValues ==
  {Fn(s) : s \in Seeds \cup {OutOfRangeSeed}} \cup Others \cup {Whole(1)}

ValuesFor(name) ==
  CASE name = "octaves" -> OctaveValues \cup Others \cup {Fn(0)}
    [] name = "random" -> RandomValues
    [] name \in {"min", "max"} -> RangeValues \cup {Undefined, Fn(0)}
    [] OTHER -> Numbers \cup Others \cup {Fn(0)}

\* one option supplied
OneOption ==
  {[NoOptions EXCEPT ![name] = v] : <<name, v>> \in
     UNION {{<<nm, w>> : w \in ValuesFor(nm)} : nm \in OptionNames}}

\* min and max both supplied
BothBounds ==
  {[NoOptions EXCEPT !.min = a, !.max = b] : a \in RangeValues, b \in RangeValues}

\* the README's example with fewer octaves, and calls that supply every option
Examples ==
  { [NoOptions EXCEPT !.frequency = Num(1, 100), !.max = Whole(255),
                      !.min = Whole(0), !.octaves = Whole(3)],
    [amplitude |-> Whole(2), frequency |-> Num(1, 2), octaves |-> Whole(3),
     persistence |-> Num(3, 4), random |-> Fn(1), min |-> Whole(0),
     max |-> Whole(2)],
    [amplitude |-> Str, frequency |-> Str, octaves |-> Num(3, 2),
     persistence |-> Undefined, random |-> Whole(1), min |-> Whole(1),
     max |-> Whole(0)] }

OptionCases == {NoOptions} \cup OneOption \cup BothBounds \cup Examples


(***************************************************************************)
(* Evaluation calls on the constructed generator.  A call returns its       *)
(* value in `result`; the caller takes it before it calls again.            *)
(***************************************************************************)
This == [amplitude |-> amplitude, frequency |-> frequency, octaves |-> octaves,
         persistence |-> persistence, scale |-> scale, min |-> min, max |-> max]

\* a faulty variant: the call attenuates the field this.amplitude where the
\* loop attenuates its local
ReturnAttenuating(v) ==
  /\ pc = "done"
  /\ result' = v
  /\ pc' = "returned"
  /\ amplitude' = JsMul(amplitude, persistence)
  /\ UNCHANGED <<options, error, frequency, octaves, persistence,
                 random, min, max, scale, p, i, draws, perm, permMod12, earlier>>

Return(v) ==
  /\ pc = "done"
  /\ result' = v
  /\ pc' = "returned"
  /\ UNCHANGED <<options, error, amplitude, frequency, octaves, persistence,
                 random, min, max, scale, p, i, draws, perm, permMod12, earlier>>

\* raw2D(x, y), raw3D(x, y, z), raw4D(x, y, z, w) at one of the points
CallRaw2D(points) ==
  /\ pc = "done"
  /\ \E at \in points : Return(Raw2D(perm, permMod12, at[1], at[2]))
CallRaw3D(points) ==
  /\ pc = "done"
  /\ \E at \in points : Return(Raw3D(perm, permMod12, at[1], at[2], at[3]))
CallRaw4D(points) ==
  /\ pc = "done"
  /\ \E at \in points : Return(Raw4D(perm, at[1], at[2], at[3], at[4]))

\* the kernel values a scaled call's loop may be handed: every run over
\* `values`, and the runs that repeat one value of Interior
Interior == {Whole(0), Num(1, 2), Num(-1, 3)}
KernelRuns(values) ==
  IF octaves.n > 0
    THEN [0 .. (octaves.n - 1) -> values]
           \cup {[k \in 0 .. (octaves.n - 1) |-> v] : v \in Interior}
    ELSE {<<>>}

\* scaled2D(x, y), scaled3D(x, y, z), scaled4D(x, y, z, w) at one of the points
CallScaled2D(points, values) ==
  /\ pc = "done"
  /\ \E at \in points, vals \in KernelRuns(values) :
       Return(ScaledND("scaled2D", This, at, vals))
CallScaled3D(points, values) ==
  /\ pc = "done"
  /\ \E at \in points, vals \in KernelRuns(values) :
       Return(ScaledND("scaled3D", This, at, vals))
CallScaled4D(points, values) ==
  /\ pc = "done"
  /\ \E at \in points, vals \in KernelRuns(values) :
       Return(ScaledND("scaled4D", This, at, vals))

\* the caller has the value
Take ==
  /\ pc = "returned"
  /\ pc' = "done"
  /\ result' = Undefined
  /\ UNCHANGED <<options, error, amplitude, frequency, octaves, persistence,
                 random, min, max, scale, p, i, draws, perm, permMod12, earlier>>

\* the caller keeps the generator and its last result, and constructs another
Again ==
  /\ pc = "returned"
  /\ earlier = NoGenerator
  /\ earlier' = [options |-> options, random |-> random, perm |-> perm,
                 permMod12 |-> permMod12, result |-> result]
  /\ pc' = "new"
  /\ options' = Undefined
  /\ error' = ""
  /\ amplitude' = Undefined /\ frequency' = Undefined /\ octaves' = Undefined
  /\ persistence' = Undefined /\ random' = Undefined
  /\ min' = Undefined /\ max' = Undefined /\ scale' = "unset"
  /\ p' = EmptyTable /\ i' = 0 /\ draws' = 0
  /\ perm' = EmptyTable /\ permMod12' = EmptyTable
  /\ result' = Undefined

(***************************************************************************)
(* The points the kernels are evaluated at, and the kernel values the       *)
(* octave loops are handed                                                  *)
(***************************************************************************)
Points2D ==
  { <<Num(1, 2), Num(1, 2)>>, <<Num(-5, 4), Num(1, 4)>>,
    <<Whole(0), Whole(0)>>, <<Num(255, 2), Whole(3)>> }
Points3D ==
  { <<Num(1, 2), Num(1, 4), Num(-3, 4)>>, <<Whole(0), Whole(0), Whole(0)>>,
    <<Num(1, 4), Num(1, 4), Whole(200)>>, <<Whole(-1), Num(7, 2), Num(1, 2)>> }
Points4D ==
  { <<Num(1, 2), Num(1, 4), Num(-3, 4), Num(7, 4)>>,
    <<Whole(0), Whole(0), Whole(0), Whole(0)>>,
    <<Num(1, 4), Num(1, 4), Num(1, 2), Num(-1, 4)>>,
    <<Whole(100), Num(3, 4), Whole(-2), Num(1, 2)>> }

\* where the scaled calls are made
OnePoint2D == {<<Num(1, 2), Num(3, 4)>>}
OnePoint3D == {<<Num(1, 2), Num(1, 4), Num(-3, 4)>>}
OnePoint4D == {<<Num(1, 2), Num(1, 4), Num(-3, 4), Num(7, 4)>>}

RawValues == {Whole(-1), Num(1, 2), Whole(1)}
ExtremeValues == {Whole(-1), Whole(1)}

(***************************************************************************)
(* Spec: one constructor call, then evaluation calls on its generator       *)
(***************************************************************************)
Next ==
  \/ \E o \in OptionCases, s \in Seeds : Begin(o, s)
  \/ ShuffleStep
  \/ BuildTables
  \/ CallRaw2D(Points2D)
  \/ CallRaw3D(Points3D)
  \/ CallRaw4D(Points4D)
  \/ CallScaled2D(OnePoint2D, RawValues)
  \/ CallScaled3D(OnePoint3D, RawValues)
  \/ CallScaled4D(OnePoint4D, RawValues)
  \/ Take

Spec == Init /\ [][Next]_vars


(***************************************************************************)
(* SpecPair: two constructor calls, one after the other, each generator     *)
(* evaluated with the raw kernels                                           *)
(***************************************************************************)
PairCases ==
  {NoOptions} \cup {[NoOptions EXCEPT !.random = Fn(s)] : s \in Seeds \cup {OutOfRangeSeed}}

PairPoints2D == {<<Num(1, 2), Num(1, 2)>>, <<Num(-5, 4), Num(511, 2)>>}
PairPoints3D == {<<Num(1, 2), Num(1, 4), Num(-3, 4)>>, <<Num(1, 4), Num(1, 4), Whole(200)>>}
PairPoints4D ==
  {<<Num(1, 2), Num(1, 4), Num(-3, 4), Num(7, 4)>>, <<Whole(100), Num(3, 4), Whole(-2), Num(1, 2)>>}

NextPair ==
  \/ \E o \in PairCases, s \in Seeds : Begin(o, s)
  \/ ShuffleStep
  \/ BuildTables
  \/ CallRaw2D(PairPoints2D)
  \/ CallRaw3D(PairPoints3D)
  \/ CallRaw4D(PairPoints4D)
  \/ Take
  \/ Again

SpecPair == Init /\ [][NextPair]_vars

(***************************************************************************)
(* SpecScaled: the scaled calls on generators of many configurations.  Its  *)
(* initial states are the states the constructor returns in, for the        *)
(* option objects of ScaledCases and the draw sequence 1.                   *)
(***************************************************************************)
Amplitudes == {Whole(1), Whole(2), Whole(-1), Whole(0), PosInf}
Persistences == {Num(1, 4), Num(1, 2), Num(3, 4)}
Ranges ==
  { <<Absent, Absent>>, <<Whole(0), Whole(255)>>, <<Num(-1, 2), Absent>>,
    <<NegInf, Whole(0)>> }

ScaledCases ==
  { [amplitude |-> a, frequency |-> Absent, octaves |-> Whole(n),
     persistence |-> ps, random |-> Fn(1), min |-> r[1], max |-> r[2]] :
      a \in Amplitudes, n \in 1 .. MaxOctaves, ps \in Persistences, r \in Ranges }
  \cup
  { [NoOptions EXCEPT !.frequency = f, !.octaves = Whole(2)] :
      f \in {Num(1, 100), NaN, PosInf, Whole(0)} }

\* the state in which new FastSimplexNoise(o) returns, s the sequence
\* Math.random would replay
ConstructedFields(o, s) ==
  LET src == IF HasOwnProperty(o, "random") THEN o.random ELSE MathRandom(s)
  IN
  /\ FailedAt(o) = 0
  /\ pc = "done"
  /\ options = o
  /\ error = ""
  /\ amplitude = Assigned(o, "amplitude", Whole(1), 1, 0)
  /\ frequency = Assigned(o, "frequency", Whole(1), 2, 0)
  /\ octaves = Assigned(o, "octaves", Whole(1), 3, 0)
  /\ persistence = Assigned(o, "persistence", Num(1, 2), 4, 0)
  /\ random = src
  /\ min = EffectiveMin(o)
  /\ max = EffectiveMax(o)
  /\ scale = ScaleFor(EffectiveMin(o), EffectiveMax(o))
  /\ p = Shuffled[src.n]
  /\ i = 0
  /\ draws = TableSize - 1
  /\ perm = PermOf(Shuffled[src.n])
  /\ permMod12 = PermMod12Of(PermOf(Shuffled[src.n]))
  /\ result = Undefined

Constructed(o, s) == ConstructedFields(o, s) /\ earlier = NoGenerator

InitScaled == \E o \in ScaledCases : Constructed(o, 0)

\* scaled2D is handed every run of extreme kernel values; scaled3D and
\* scaled4D, whose loops are the same text, the runs that repeat one value
NextScaled ==
  \/ CallScaled2D(OnePoint2D, ExtremeValues)
  \/ CallScaled3D(OnePoint3D, {Whole(1)})
  \/ CallScaled4D(OnePoint4D, {Whole(-1)})
  \/ Take

SpecScaled == InitScaled /\ [][NextScaled]_vars

\* the constructor's steps end in the state Constructed describes
StepsAgree == pc = "done" => Constructed(options, random.n)



(***************************************************************************)
(* The other evaluation methods: raw and scaled (lines 157-164, 384-391),   *)
(* cylindrical* (lines 123-149) and spherical* (lines 441-475).             *)
(***************************************************************************)
\* what a switch on coords.length returns by default
Null == [t |-> "null", n |-> 0, d |-> 0]

\* raw(coords)
RawOf(pm, pm12, coords) ==
  IF Len(coords) = 2 THEN Raw2D(pm, pm12, coords[1], coords[2])
  ELSE IF Len(coords) = 3 THEN Raw3D(pm, pm12, coords[1], coords[2], coords[3])
  ELSE IF Len(coords) = 4 THEN Raw4D(pm, coords[1], coords[2], coords[3], coords[4])
  ELSE Null

\* scaled(coords)
ScaledOf(gen, coords, vals) ==
  IF Len(coords) = 2 THEN ScaledND("scaled2D", gen, coords, vals)
  ELSE IF Len(coords) = 3 THEN ScaledND("scaled3D", gen, coords, vals)
  ELSE IF Len(coords) = 4 THEN ScaledND("scaled4D", gen, coords, vals)
  ELSE Null

\* cylindrical2D(c, x, y) and cylindrical3D(c, x, y, z): a and b are what the
\* floating-point products r * Math.sin(rdx) and r * Math.cos(rdx) come to,
\* inputs here; the other coordinates are passed on as they are
Cylindrical2D(gen, c, x, y, a, b, vals) ==
  LET inner == ScaledND("scaled3D", gen, <<a, b, y>>, vals)
  IN  [op |-> "cylindrical2D", at |-> <<c, x, y>>, inner |-> inner,
       value |-> inner.value]
Cylindrical3D(gen, c, x, y, z, a, b, vals) ==
  LET inner == ScaledND("scaled4D", gen, <<a, b, y, z>>, vals)
  IN  [op |-> "cylindrical3D", at |-> <<c, x, y, z>>, inner |-> inner,
       value |-> inner.value]

\* cylindrical(c, coords)
CylindricalOf(gen, c, coords, a, b, vals) ==
  IF Len(coords) = 2 THEN Cylindrical2D(gen, c, coords[1], coords[2], a, b, vals)
  ELSE IF Len(coords) = 3
    THEN Cylindrical3D(gen, c, coords[1], coords[2], coords[3], a, b, vals)
  ELSE Null

\* spherical2D(c, x, y) and spherical3D(c, x, y, z): a, b and d are what the
\* trigonometric products come to, inputs here
Spherical2D(gen, c, x, y, a, b, d, vals) ==
  LET inner == ScaledND("scaled3D", gen, <<a, b, d>>, vals)
  IN  [op |-> "spherical2D", at |-> <<c, x, y>>, inner |-> inner,
       value |-> inner.value]
Spherical3D(gen, c, x, y, z, a, b, d, vals) ==
  LET inner == ScaledND("scaled4D", gen, <<a, b, d, z>>, vals)
  IN  [op |-> "spherical3D", at |-> <<c, x, y, z>>, inner |-> inner,
       value |-> inner.value]

\* spherical(c, coords)
SphericalOf(gen, c, coords, a, b, d, vals) ==
  IF Len(coords) = 3
    THEN Spherical3D(gen, c, coords[1], coords[2], coords[3], a, b, d, vals)
  ELSE IF Len(coords) = 2 THEN Spherical2D(gen, c, coords[1], coords[2], a, b, d, vals)
  ELSE Null

\* the coordinate arrays, circumferences and trigonometric products tried
CoordArrays ==
  { <<Num(1, 2), Num(3, 4)>>, <<Num(1, 2), Num(1, 4), Num(-3, 4)>>,
    <<Num(1, 2), Num(1, 4), Num(-3, 4), Num(7, 4)>>, <<Whole(1)>>, <<>> }
Circumferences == {Whole(4)}
TrigProducts == {Num(1, 2), Num(-3, 4)}

\* raw(coords), which is raw2D, raw3D or raw4D called through the switch
CallRaw(arrays) ==
  /\ pc = "done"
  /\ \E coords \in arrays : Return(RawOf(perm, permMod12, coords))

\* scaled(coords)
CallScaled(arrays, values) ==
  /\ pc = "done"
  /\ \E coords \in arrays, vals \in KernelRuns(values) :
       Return(ScaledOf(This, coords, vals))

\* cylindrical(c, coords), cylindrical2D and cylindrical3D
CallCylindrical(arrays, values) ==
  /\ pc = "done"
  /\ \E coords \in arrays, c \in Circumferences, a, b \in TrigProducts,
        vals \in KernelRuns(values) :
       Return(CylindricalOf(This, c, coords, a, b, vals))

\* spherical(c, coords), spherical2D and spherical3D
CallSpherical(arrays, values) ==
  /\ pc = "done"
  /\ \E coords \in arrays, c \in Circumferences, a, b, d \in TrigProducts,
        vals \in KernelRuns(values) :
       Return(SphericalOf(This, c, coords, a, b, d, vals))

(***************************************************************************)
(* SpecEval: every evaluation method, called in any order on a constructed  *)
(* generator                                                                *)
(***************************************************************************)
EvalCases ==
  { [NoOptions EXCEPT !.random = Fn(2)],
    [NoOptions EXCEPT !.random = Fn(2), !.frequency = Num(1, 100),
                      !.max = Whole(255), !.min = Whole(0), !.octaves = Whole(3)],
    [amplitude |-> Whole(2), frequency |-> Num(1, 2), octaves |-> Whole(2),
     persistence |-> Num(3, 4), random |-> Fn(0), min |-> Whole(0),
     max |-> Whole(2)] }

InitEval == \E o \in EvalCases : Constructed(o, 0)

NextEval ==
  \/ CallRaw2D(PairPoints2D)
  \/ CallRaw3D(PairPoints3D)
  \/ CallRaw4D(PairPoints4D)
  \/ CallScaled2D(OnePoint2D, ExtremeValues)
  \/ CallScaled3D(OnePoint3D, ExtremeValues)
  \/ CallScaled4D(OnePoint4D, ExtremeValues)
  \/ CallRaw(CoordArrays)
  \/ CallScaled(CoordArrays, ExtremeValues)
  \/ CallCylindrical(CoordArrays, ExtremeValues)
  \/ CallSpherical(CoordArrays, ExtremeValues)
  \/ Take

SpecEval == InitEval /\ [][NextEval]_vars


(***************************************************************************)
(* SpecKernel: the raw kernels on a grid of points that has every ordering  *)
(* of the distances from the cell origin, ties included, and cells whose    *)
(* masked indices are 255                                                   *)
(***************************************************************************)
\* the grid has the coordinates -1/GridSteps, 0, 1/GridSteps, ..., 1 - 1/GridSteps
GridSteps == 4
GridCoords == {Num(k, GridSteps) : k \in -1 .. (GridSteps - 1)}

\* points far from the origin, on both sides
Far2D == {<<Num(-5, 4), Whole(255)>>, <<Whole(255), Num(-1, 2)>>}
Far3D == {<<Num(1, 4), Num(1, 4), Whole(200)>>, <<Whole(-256), Num(7, 2), Whole(510)>>}
Far4D ==
  {<<Whole(100), Num(3, 4), Whole(-2), Num(1, 2)>>,
   <<Whole(-256), Num(7, 2), Whole(255), Num(-1, 2)>>}

Grid2D == (GridCoords \X GridCoords) \cup Far2D
Grid3D == (GridCoords \X GridCoords \X GridCoords) \cup Far3D
Grid4D == (GridCoords \X GridCoords \X GridCoords \X GridCoords) \cup Far4D

KernelCases ==
  {[NoOptions EXCEPT !.random = Fn(sq)] : sq \in Seeds \cup {OutOfRangeSeed}}

InitKernel == \E o \in KernelCases : Constructed(o, 0)

NextKernel ==
  \/ CallRaw2D(Grid2D)
  \/ CallRaw3D(Grid3D)
  \/ CallRaw4D(Grid4D)
  \/ Take

SpecKernel == InitKernel /\ [][NextKernel]_vars


(***************************************************************************)
(* The gradient vectors of the class: GRAD3D and GRAD4D, lines 37-51, and   *)
(* the components of one that dot, lines 151-155, multiplies                *)
(***************************************************************************)
GRAD3D ==
  << <<1, 1, 0>>, <<-1, 1, 0>>, <<1, -1, 0>>, <<-1, -1, 0>>,
     <<1, 0, 1>>, <<-1, 0, 1>>, <<1, 0, -1>>, <<-1, 0, -1>>,
     <<0, 1, 1>>, <<0, -1, -1>>, <<0, 1, -1>>, <<0, -1, -1>> >>

GRAD4D ==
  << <<0, 1, 1, 1>>, <<0, 1, 1, -1>>, <<0, 1, -1, 1>>, <<0, 1, -1, -1>>,
     <<0, -1, 1, 1>>, <<0, -1, 1, -1>>, <<0, -1, -1, 1>>, <<0, -1, -1, -1>>,
     <<1, 0, 1, 1>>, <<1, 0, 1, -1>>, <<1, 0, -1, 1>>, <<1, 0, -1, -1>>,
     <<-1, 0, 1, 1>>, <<-1, 0, 1, -1>>, <<-1, 0, -1, 1>>, <<-1, 0, -1, -1>>,
     <<1, 1, 0, 1>>, <<1, 1, 0, -1>>, <<1, -1, 0, 1>>, <<1, -1, 0, -1>>,
     <<-1, 1, 0, 1>>, <<-1, 1, 0, -1>>, <<-1, -1, 0, 1>>, <<-1, -1, 0, -1>>,
     <<1, 1, 1, 0>>, <<1, 1, -1, 0>>, <<1, -1, 1, 0>>, <<1, -1, -1, 0>>,
     <<-1, 1, 1, 0>>, <<-1, 1, -1, 0>>, <<-1, -1, 1, 0>>, <<-1, -1, -1, 0>> >>

\* table[gi], gi read from a table of indices
GradAt(table, gi) == IF gi + 1 \in DOMAIN table THEN table[gi + 1] ELSE <<>>

\* a dot product that multiplies every component of gs
DotUsesAll(gs, coords) == gs

\* lines 152-153: gs.slice(0, Math.min(gs.length, coords.length)), the
\* components of gs the sum of line 154 multiplies with coords
DotUses(gs, coords) ==
  SubSeq(gs, 1, IF Len(gs) < Len(coords) THEN Len(gs) ELSE Len(coords))

\* lines 196-200, 269-275, 370-378: the gradient components each corner of
\* the result r of a raw call contributes with
Gradients(r) ==
  [c \in DOMAIN r.gi |->
     DotUses(GradAt(IF r.op = "raw4D" THEN GRAD4D ELSE GRAD3D, r.gi[c]), r.at)]

\* lines 204, 279, 381: the factor of the returned sum
Factor(r) ==
  CASE r.op = "raw2D" -> "70.14805770653952"
    [] r.op = "raw3D" -> "94.68493150681972"
    [] r.op = "raw4D" -> "72.37855765153665"

(***************************************************************************)
(* The standalone factories makeNoise2D (unnamed/part_000), makeNoise3D     *)
(* (deno_lib/3d.ts) and makeNoise4D (src/4d.ts).  Each builds its tables    *)
(* from the source it is given and returns a closure over them.             *)
(***************************************************************************)
\* unnamed/part_000, lines 13-26
Grad2 ==
  << <<1, 1>>, <<-1, 1>>, <<1, -1>>, <<-1, -1>>,
     <<1, 0>>, <<-1, 0>>, <<1, 0>>, <<-1, 0>>,
     <<0, 1>>, <<0, -1>>, <<0, 1>>, <<0, -1>> >>

\* deno_lib/3d.ts, lines 13-26
Grad3 ==
  << <<1, 1, 0>>, <<-1, 1, 0>>, <<1, -1, 0>>, <<-1, -1, 0>>,
     <<1, 0, 1>>, <<-1, 0, 1>>, <<1, 0, -1>>, <<-1, 0, -1>>,
     <<0, 1, 1>>, <<0, -1, -1>>, <<0, 1, -1>>, <<0, -1, -1>> >>

\* src/4d.ts, lines 13-46
Grad4 ==
  << <<0, 1, 1, 1>>, <<0, 1, 1, -1>>, <<0, 1, -1, 1>>, <<0, 1, -1, -1>>,
     <<0, -1, 1, 1>>, <<0, -1, 1, -1>>, <<0, -1, -1, 1>>, <<0, -1, -1, -1>>,
     <<1, 0, 1, 1>>, <<1, 0, 1, -1>>, <<1, 0, -1, 1>>, <<1, 0, -1, -1>>,
     <<-1, 0, 1, 1>>, <<-1, 0, 1, -1>>, <<-1, 0, -1, 1>>, <<-1, 0, -1, -1>>,
     <<1, 1, 0, 1>>, <<1, 1, 0, -1>>, <<1, -1, 0, 1>>, <<1, -1, 0, -1>>,
     <<-1, 1, 0, 1>>, <<-1, 1, 0, -1>>, <<-1, -1, 0, 1>>, <<-1, -1, 0, -1>>,
     <<1, 1, 1, 0>>, <<1, 1, -1, 0>>, <<1, -1, 1, 0>>, <<1, -1, -1, 0>>,
     <<-1, 1, 1, 0>>, <<-1, 1, -1, 0>>, <<-1, -1, 1, 0>>, <<-1, -1, -1, 0>> >>

\* the loop body of the factories (part_000 lines 35-38, 3d.ts lines 35-38,
\* 4d.ts lines 55-58) at index ix, the source replaying sequence s
FactorySwap(tbl, ix, s) ==
  LET n == Floor(Times(Whole(ix + 1), DrawOf(s, TableSize - 1 - ix)))
      q == Load(tbl, TableSize, ix)
      t1 == Store(tbl, TableSize, ix, Load(tbl, TableSize, n))
  IN  Store(t1, TableSize, n, q)

\* the loop for (let i = hi; i >= lo; i--) of the factories
RECURSIVE FactoryLoop(_, _, _, _)
FactoryLoop(tbl, hi, lo, s) ==
  IF hi < lo \/ hi \notin DOMAIN tbl
    THEN tbl
    ELSE IF hi = lo
      THEN FactorySwap(tbl, hi, s)
      ELSE LET mid == (hi + lo + 1) \div 2
           IN  FactoryLoop(FactoryLoop(tbl, hi, mid, s), mid - 1, lo, s)

\* the tables a factory builds (part_000 lines 29-45, 3d.ts lines 29-45,
\* 4d.ts lines 49-65) from a source replaying sequence s
FactoryTables ==
  [s \in Seeds \cup {OutOfRangeSeed} |->
     LET t == FactoryLoop([k \in 0 .. (TableSize - 1) |-> k], TableSize - 1, 1, s)
         pm == [k \in 0 .. (PermSize - 1) |-> t[k % 256]]
     IN  [perm |-> pm,
          permMod12 |-> [k \in 0 .. (PermSize - 1) |-> pm[k] % 12]]]

\* the closure makeNoise2D returns, part_000 lines 47-89, at (x, y)
Noise2D(tables, x, y) ==
  LET pm == tables.perm
      pm12 == tables.permMod12
      s == SScale(Plus(x, y), Surd(Num(-1, 2), Num(1, 2)))
      ci == SFloor(SPlus(OfNum(x), s), 3)
      cj == SFloor(SPlus(OfNum(y), s), 3)
      t == SScale(Whole(ci + cj), Surd(Num(1, 2), Num(-1, 6)))
      x0 == SMinus(OfNum(x), SMinus(OfNum(Whole(ci)), t))
      y0 == SMinus(OfNum(y), SMinus(OfNum(Whole(cj)), t))
      i1 == IF SGt(x0, y0, 3) THEN 1 ELSE 0
      j1 == IF SGt(x0, y0, 3) THEN 0 ELSE 1
      ii == ci % 256
      jj == cj % 256
      g(di, dj) ==
        GradAt(Grad2, Entry(pm12, Index(ii + di, Entry(pm, jj + dj))))
  IN  [op |-> "noise2D",
       at |-> <<x, y>>,
       cell |-> <<ci, cj>>,
       origin |-> <<x0, y0>>,
       corners |-> <<<<0, 0>>, <<i1, j1>>, <<1, 1>>>>,
       gradients |-> <<g(0, 0), g(i1, j1), g(1, 1)>>,
       factor |-> "70.14805770653952"]

\* the closure makeNoise3D returns, 3d.ts lines 47-131, at (x, y, z)
Noise3D(tables, x, y, z) ==
  LET pm == tables.perm
      pm12 == tables.permMod12
      s == JsDiv(Plus(Plus(x, y), z), Whole(3))
      ci == Floor(Plus(x, s))
      cj == Floor(Plus(y, s))
      ck == Floor(Plus(z, s))
      t == Times(Whole(ci + cj + ck), Num(1, 6))
      x0 == Minus(x, Minus(Whole(ci), t))
      y0 == Minus(y, Minus(Whole(cj), t))
      z0 == Minus(z, Minus(Whole(ck), t))
      c == IF JsGe(x0, y0)
             THEN IF JsGe(y0, z0) THEN <<<<1, 0, 0>>, <<1, 1, 0>>>>
                  ELSE IF JsGe(x0, z0) THEN <<<<1, 0, 0>>, <<1, 0, 1>>>>
                  ELSE <<<<0, 0, 1>>, <<1, 0, 1>>>>
             ELSE IF JsLt(y0, z0) THEN <<<<0, 0, 1>>, <<0, 1, 1>>>>
                  ELSE IF JsLt(x0, z0) THEN <<<<0, 1, 0>>, <<0, 1, 1>>>>
                  ELSE <<<<0, 1, 0>>, <<1, 1, 0>>>>
      ii == ci % 256
      jj == cj % 256
      kk == ck % 256
      g(o) ==
        GradAt(Grad3,
               Entry(pm12, Index(ii + o[1],
                                 Entry(pm, Index(jj + o[2], Entry(pm, kk + o[3]))))))
  IN  [op |-> "noise3D",
       at |-> <<x, y, z>>,
       cell |-> <<ci, cj, ck>>,
       origin |-> <<x0, y0, z0>>,
       corners |-> <<<<0, 0, 0>>, c[1], c[2], <<1, 1, 1>>>>,
       gradients |-> <<g(<<0, 0, 0>>), g(c[1]), g(c[2]), g(<<1, 1, 1>>)>>,
       factor |-> "94.68493150681972"]

\* 4d.ts lines 88-103: rankx, ranky, rankz, rankw
NoiseRanks(x0, y0, z0, w0) ==
  LET up(c) == IF c THEN 1 ELSE 0
      xy == SGt(x0, y0, 5)
      xz == SGt(x0, z0, 5)
      xw == SGt(x0, w0, 5)
      yz == SGt(y0, z0, 5)
      yw == SGt(y0, w0, 5)
      zw == SGt(z0, w0, 5)
  IN  << up(xy) + up(xz) + up(xw),
         up(~xy) + up(yz) + up(yw),
         up(~xz) + up(~yz) + up(zw),
         up(~xw) + up(~yw) + up(~zw) >>

\* 4d.ts lines 110-123: rank >= th ? 1 : 0 on each axis
NoiseCorner(rank, th) ==
  << IF rank[1] >= th THEN 1 ELSE 0, IF rank[2] >= th THEN 1 ELSE 0,
     IF rank[3] >= th THEN 1 ELSE 0, IF rank[4] >= th THEN 1 ELSE 0 >>

\* 4d.ts lines 150-173: Grad[perm[ii + .. + perm[jj + .. + perm[kk + .. +
\* perm[ll + ..]]]] % 32]
NoiseGrad4(pm, ii, jj, kk, ll, o) ==
  LET r1 == Entry(pm, ll + o[4])
      r2 == Entry(pm, Index(kk + o[3], r1))
      r3 == Entry(pm, Index(jj + o[2], r2))
  IN  GradAt(Grad4, Remainder(Entry(pm, Index(ii + o[1], r3)), 32))

\* the closure makeNoise4D returns, 4d.ts lines 68-197, at (x, y, z, w)
Noise4D(tables, x, y, z, w) ==
  LET pm == tables.perm
      s == SScale(Plus(Plus(Plus(x, y), z), w), Surd(Num(-1, 4), Num(1, 4)))
      ci == SFloor(SPlus(OfNum(x), s), 5)
      cj == SFloor(SPlus(OfNum(y), s), 5)
      ck == SFloor(SPlus(OfNum(z), s), 5)
      cl == SFloor(SPlus(OfNum(w), s), 5)
      t == SScale(Whole(ci + cj + ck + cl), Surd(Num(1, 4), Num(-1, 20)))
      x0 == SMinus(OfNum(x), SMinus(OfNum(Whole(ci)), t))
      y0 == SMinus(OfNum(y), SMinus(OfNum(Whole(cj)), t))
      z0 == SMinus(OfNum(z), SMinus(OfNum(Whole(ck)), t))
      w0 == SMinus(OfNum(w), SMinus(OfNum(Whole(cl)), t))
      rank == NoiseRanks(x0, y0, z0, w0)
      c1 == NoiseCorner(rank, 3)
      c2 == NoiseCorner(rank, 2)
      c3 == NoiseCorner(rank, 1)
      ii == ci % 256
      jj == cj % 256
      kk == ck % 256
      ll == cl % 256
  IN  [op |-> "noise4D",
       at |-> <<x, y, z, w>>,
       cell |-> <<ci, cj, ck, cl>>,
       origin |-> <<x0, y0, z0, w0>>,
       corners |-> <<<<0, 0, 0, 0>>, c1, c2, c3, <<1, 1, 1, 1>>>>,
       gradients |-> <<NoiseGrad4(pm, ii, jj, kk, ll, <<0, 0, 0, 0>>),
                       NoiseGrad4(pm, ii, jj, kk, ll, c1),
                       NoiseGrad4(pm, ii, jj, kk, ll, c2),
                       NoiseGrad4(pm, ii, jj, kk, ll, c3),
                       NoiseGrad4(pm, ii, jj, kk, ll, <<1, 1, 1, 1>>)>>,
       factor |-> "72.37855765153665"]

\* the closure a factory returns when given the source src: the tables it
\* keeps
Closure(src) ==
  [options |-> Undefined, random |-> src,
   perm |-> FactoryTables[src.n].perm,
   permMod12 |-> FactoryTables[src.n].permMod12,
   result |-> Undefined]

\* a call of the closure made before the generator
CallNoise2D(points) ==
  /\ pc = "done"
  /\ \E at \in points : Return(Noise2D(earlier, at[1], at[2]))
CallNoise3D(points) ==
  /\ pc = "done"
  /\ \E at \in points : Return(Noise3D(earlier, at[1], at[2], at[3]))
CallNoise4D(points) ==
  /\ pc = "done"
  /\ \E at \in points : Return(Noise4D(earlier, at[1], at[2], at[3], at[4]))

(***************************************************************************)
(* SpecFactory: a closure of each factory and a generator, made with        *)
(* sources of the same draws, called on the grid of SpecKernel.  The three  *)
(* factories build their tables with the same statements, so one record of *)
(* tables stands for the three closures.                                    *)
(***************************************************************************)
InitFactory ==
  \E o \in KernelCases :
    /\ ConstructedFields(o, 0)
    /\ earlier = Closure(o.random)

NextFactory ==
  \/ CallRaw2D(Grid2D)
  \/ CallRaw3D(Grid3D)
  \/ CallRaw4D(Grid4D)
  \/ CallNoise2D(Grid2D)
  \/ CallNoise3D(Grid3D)
  \/ CallNoise4D(Grid4D)
  \/ Take

SpecFactory == InitFactory /\ [][NextFactory]_vars

(***************************************************************************)
(* Properties                                                               *)
(***************************************************************************)
Constructing == {"shuffle", "done", "returned"}
AllSeeds == Seeds \cup {OutOfRangeSeed}
ScaledOps == {"scaled2D", "scaled3D", "scaled4D"}
Supplied(name) == options[name].t # "absent"
InClosed(v, lo, hi) == JsGe(v, lo) /\ JsGe(hi, v)

\* the sequences whose shuffle draws all lie in [0,1)
UnitSeeds == {s \in AllSeeds : InUnitInterval(s)}

IsPermutation(tbl) ==
  /\ DOMAIN tbl = 0 .. (TableSize - 1)
  /\ {tbl[k] : k \in DOMAIN tbl} = 0 .. (TableSize - 1)

\* C1: when every draw of the random source lies in [0,1), the table p is a
\* permutation of 0..255 before the first swap, after every swap step of the
\* shuffle, and when the constructor has returned.
C1_ShuffleKeepsPermutation ==
  (pc \in Constructing /\ random.n \in UnitSeeds) => IsPermutation(p)

\* half-way through the shuffle, swaps have moved entries
C1_MidShuffle ==
  /\ pc = "shuffle"
  /\ i = TableSize \div 2
  /\ random.n \in UnitSeeds
  /\ p # InitialTable
  /\ p[TableSize - 1] # TableSize - 1

\* C2: after construction perm has length 512 with perm[k] = perm[k + 256] =
\* p[k] for k in 0..255, and permMod12 has length 512 with permMod12[k] =
\* perm[k] mod 12 for k in 0..511.
C2_DoubledTables ==
  pc \in {"done", "returned"} =>
    /\ DOMAIN perm = 0 .. 511
    /\ DOMAIN permMod12 = 0 .. 511
    /\ \A k \in 0 .. 255 : perm[k] = p[k] /\ perm[k + 256] = p[k]
    /\ \A k \in 0 .. 511 : permMod12[k] = perm[k] % 12

\* a constructed generator whose tables are not the identity's, with an
\* entry that the reduction modulo 12 changes
C2_TablesBuilt ==
  /\ pc = "done"
  /\ perm[0] # 0
  /\ perm[256] >= 12
  /\ permMod12[256] # perm[256]

\* the random source a constructor call is given: options.random when
\* supplied, Math.random (which the field then holds) otherwise
SourceGiven(opts, field) ==
  IF opts.random.t = "absent" THEN field ELSE opts.random

\* the pairs of sequences whose shuffle draws agree
SameDraws ==
  {pr \in AllSeeds \X AllSeeds :
     \A k \in 0 .. (TableSize - 2) : DrawOf(pr[1], k) = DrawOf(pr[2], k)}

SameSource ==
  <<SourceGiven(earlier.options, earlier.random).n, SourceGiven(options, random).n>>
    \in SameDraws

\* C3: two generators constructed from random sources that return the same
\* sequence of draws have equal perm and equal permMod12 tables, and a raw
\* kernel called at the same coordinates on both selects the same cell, the
\* same corners and the same gradient indices.
C3_Determinism ==
  (earlier # NoGenerator /\ pc \in {"done", "returned"} /\ SameSource) =>
    /\ perm = earlier.perm
    /\ permMod12 = earlier.permMod12
    /\ (pc = "returned" /\ result.op = earlier.result.op
                        /\ result.at = earlier.result.at) =>
         /\ result.corners = earlier.result.corners
         /\ result.gi = earlier.result.gi
         /\ result = earlier.result

\* a generator on Math.random and a later one on a caller's function that
\* replays the same draws, both evaluated at the same point
C3_SameDrawsTwice ==
  /\ earlier # NoGenerator
  /\ pc = "returned"
  /\ SameSource
  /\ earlier.random # random
  /\ perm # PermOf(InitialTable)
  /\ result.op = earlier.result.op
  /\ result.at = earlier.result.at

\* C5: on a generator with octaves in 1..8, persistence in (0,1) and
\* min < max, a scaled call whose kernel values all lie in [-1,1] returns a
\* value in [min, max].  Stated for the generators whose amplitude, min and
\* max are finite, which is all a violation needs.
C5_ScaledWithinRange ==
  ( /\ pc = "returned"
    /\ result.op \in ScaledOps
    /\ octaves.n \in 1 .. 8
    /\ JsLt(Whole(0), persistence) /\ JsLt(persistence, Whole(1))
    /\ JsLt(min, max)
    /\ IsFinite(amplitude) /\ IsFinite(min) /\ IsFinite(max)
    /\ \A k \in DOMAIN result.kernel :
         InClosed(result.kernel[k], Whole(-1), Whole(1)) )
  => InClosed(result.value, min, max)

\* C6: every constructed generator has min strictly less than max.
C6_MinBelowMax ==
  pc \in Constructing => JsLt(min, max)

\* C7: every constructed generator has an integer octave count of at least
\* 1, and every scaled call runs at least one octave, so that maxAmplitude
\* is a sum of at least one amplitude.
C7_OctavesPositive ==
  /\ pc \in Constructing => (IsInteger(octaves) /\ octaves.n >= 1)
  /\ (pc = "returned" /\ result.op \in ScaledOps) => Len(result.kernel) >= 1

\* C8: every constructed generator has a finite persistence and a finite
\* amplitude.
C8_FiniteAmplitudeAndPersistence ==
  pc \in Constructing => (IsFinite(persistence) /\ IsFinite(amplitude))

\* an option object with a supplied option of an invalid type
InvalidType(o) ==
  \/ \E name \in {"amplitude", "frequency", "persistence", "min", "max"} :
       o[name].t # "absent" /\ o[name].t \notin {"num", "nan", "inf"}
  \/ o.random.t # "absent" /\ o.random.t # "fn"
  \/ o.octaves.t # "absent" /\ ~(o.octaves.t = "num" /\ o.octaves.d = 1)

\* C9: a constructor call with a supplied option of an invalid type has
\* failed with an error when its first step is over: no table is built, the
\* random source is never called, and no evaluation ever runs on the object.
C9_InvalidTypeFails ==
  (pc # "new" /\ InvalidType(options)) =>
    /\ pc = "failed"
    /\ error # ""
    /\ p = EmptyTable /\ perm = EmptyTable /\ permMod12 = EmptyTable
    /\ draws = 0
    /\ result = Undefined

\* a call with valid amplitude and a non-integer octaves, failed
C9_FailedOnOctaves ==
  /\ pc = "failed"
  /\ InvalidType(options)
  /\ options.octaves = Num(3, 2)
  /\ error = "options.octaves must be an integer"

\* what a field holds by C10: the supplied value, else the default
Documented(name, default) == IF Supplied(name) THEN options[name] ELSE default

\* C10: a constructed generator holds, for each option, the supplied value
\* unchanged or else the default: amplitude 1, frequency 1, octaves 1,
\* persistence 0.5, min -1, max 1; with neither min nor max supplied the
\* output scaling is the identity.
C10_Defaults ==
  pc \in Constructing =>
    /\ amplitude = Documented("amplitude", Whole(1))
    /\ frequency = Documented("frequency", Whole(1))
    /\ octaves = Documented("octaves", Whole(1))
    /\ persistence = Documented("persistence", Num(1, 2))
    /\ min = Documented("min", Whole(-1))
    /\ max = Documented("max", Whole(1))
    /\ Supplied("random") => random = options.random
    /\ (~Supplied("min") /\ ~Supplied("max")) => scale = "identity"

\* a generator with frequency, octaves, min and max supplied and the other
\* options left to their defaults
C10_SomeSupplied ==
  /\ pc = "done"
  /\ Supplied("frequency") /\ frequency = Num(1, 100)
  /\ Supplied("max") /\ max = Whole(255)
  /\ ~Supplied("persistence") /\ persistence = Num(1, 2)
  /\ ~Supplied("amplitude") /\ amplitude = Whole(1)


\* C11: on a generator with octaves 1, amplitude 1, frequency 1 and the
\* range [-1, 1], a scaled call at a point calls its kernel once, at that
\* very point, and returns the value the kernel returns.
C11_SingleOctaveIsRaw ==
  ( /\ pc = "returned"
    /\ result.op \in ScaledOps
    /\ octaves = Whole(1) /\ amplitude = Whole(1) /\ frequency = Whole(1)
    /\ min = Whole(-1) /\ max = Whole(1) )
  => /\ Len(result.calls) = 1
     /\ result.calls[1] = result.at
     /\ result.value = result.kernel[1]

\* such a call of scaled3D, the kernel returning a value other than 0
C11_SingleOctaveCall ==
  /\ pc = "returned"
  /\ result.op = "scaled3D"
  /\ octaves = Whole(1) /\ amplitude = Whole(1) /\ frequency = Whole(1)
  /\ min = Whole(-1) /\ max = Whole(1)
  /\ persistence = Num(3, 4)
  /\ result.kernel = <<Num(1, 2)>>
  /\ result.value = Num(1, 2)


\* <<b^0, b^1, ..., b^(n-1)>>
RECURSIVE PowersOf(_, _)
PowersOf(b, n) ==
  IF n = 0 THEN <<>>
  ELSE IF n = 1 THEN <<Whole(1)>>
  ELSE LET prev == PowersOf(b, n - 1)
       IN  Append(prev, JsMul(prev[n - 1], b))

\* the sum of the first n entries of a sequence of numbers, from 0 on
RECURSIVE SumOf(_, _)
SumOf(terms, n) ==
  IF n = 0 THEN Whole(0) ELSE JsAdd(SumOf(terms, n - 1), terms[n])

\* C12: a scaled call on a generator with octave count N >= 1 calls its
\* kernel N times; the call of octave k = 0..N-1 is the (k+1)-th and is made
\* at every coordinate times F0 * 2^k; noise is the sum over the octaves of
\* the kernel's value times A0 * p^k, maxAmplitude the sum of the A0 * p^k,
\* and the call returns scale(noise / maxAmplitude).
C12_OctaveLoop ==
  (pc = "returned" /\ result.op \in ScaledOps /\ IsInteger(octaves) /\ octaves.n >= 1)
  => LET N == octaves.n
         twos == PowersOf(Whole(2), N)
         pers == PowersOf(persistence, N)
         amps == [k \in 1 .. N |-> JsMul(amplitude, pers[k])]
     IN  /\ Len(result.calls) = N
         /\ Len(result.kernel) = N
         /\ \A k \in 1 .. N :
              result.calls[k] =
                [a \in DOMAIN result.at |->
                   JsMul(result.at[a], JsMul(frequency, twos[k]))]
         /\ result.noise =
              SumOf([k \in 1 .. N |-> JsMul(result.kernel[k], amps[k])], N)
         /\ result.maxAmplitude = SumOf(amps, N)
         /\ result.value =
              ApplyScale(scale, min, max, JsDiv(result.noise, result.maxAmplitude))

\* a call of scaled2D over eight octaves with persistence 3/4 and amplitude
\* 2, the kernel's values of both signs
C12_EightOctaves ==
  /\ pc = "returned"
  /\ result.op = "scaled2D"
  /\ octaves = Whole(8) /\ persistence = Num(3, 4) /\ amplitude = Whole(2)
  /\ result.kernel[1] = Whole(1) /\ result.kernel[2] = Whole(-1)
  /\ result.kernel[8] = Whole(1)
  /\ result.calls[8] = <<Whole(64), Whole(96)>>


\* values of [-1, 1] the rescale function is tried on
ScaleSamples == {Whole(-1), Num(-1, 2), Whole(0), Num(1, 3), Whole(1)}

\* this.scale(v) on the generator
Rescaled(v) == ApplyScale(scale, min, max, v)

\* min + ((v + 1) / 2) * (max - min)
LinearMap(v) ==
  JsAdd(min, JsMul(JsDiv(JsAdd(v, Whole(1)), Whole(2)), JsSub(max, min)))

\* the rescale function is the identity exactly for min = -1 and max = 1,
\* the linear map otherwise, and a scaled call returns it of noise / maxAmplitude
RescaleIsIdentityOrLinear ==
  /\ (scale = "identity") <=> (JsEq(min, Whole(-1)) /\ JsEq(max, Whole(1)))
  /\ scale \in {"identity", "linear"}
  /\ \A v \in ScaleSamples :
       Rescaled(v) = IF scale = "identity" THEN v ELSE LinearMap(v)
  /\ (pc = "returned" /\ result.op \in ScaledOps) =>
       LET q == JsDiv(result.noise, result.maxAmplitude)
       IN  result.value = IF scale = "identity" THEN q ELSE LinearMap(q)

\* the rescale function sends -1 to min, 1 to max, and increases on [-1, 1]
RescaleOntoRange ==
  /\ JsEq(Rescaled(Whole(-1)), min)
  /\ JsEq(Rescaled(Whole(1)), max)
  /\ \A u, v \in ScaleSamples : JsLt(u, v) => JsLt(Rescaled(u), Rescaled(v))

FreshThis ==
  [amplitude |-> Documented("amplitude", Whole(1)),
   frequency |-> Documented("frequency", Whole(1)),
   octaves |-> Documented("octaves", Whole(1)),
   persistence |-> Documented("persistence", Num(1, 2)),
   scale |-> ScaleFor(Documented("min", Whole(-1)), Documented("max", Whole(1))),
   min |-> Documented("min", Whole(-1)),
   max |-> Documented("max", Whole(1))]
FreshPerm == PermOf(Shuffled[SourceGiven(options, random).n])

\* what the call that returned `result` returns when it is the only call made
\* on the generator, its kernel and trigonometric values being the same
RECURSIVE Alone(_)
Alone(r) ==
  IF r = Null THEN Null
  ELSE IF r.op \in {"raw2D", "raw3D", "raw4D"}
    THEN RawOf(FreshPerm, PermMod12Of(FreshPerm), r.at)
  ELSE IF r.op \in ScaledOps
    THEN ScaledND(r.op, FreshThis, r.at,
                  [k \in 0 .. (Len(r.kernel) - 1) |-> r.kernel[k + 1]])
  ELSE [r EXCEPT !.inner = Alone(r.inner), !.value = Alone(r.inner).value]

\* no field and no table changes in a step taken after construction
EvaluationKeepsGenerator ==
  pc \in {"done", "returned"} =>
    UNCHANGED <<perm, permMod12, amplitude, frequency, octaves, persistence,
                scale, min, max, random>>

\* C14: once the constructor has returned, no step of any evaluation method
\* changes perm, permMod12, amplitude, frequency, octaves, persistence or the
\* scale function, and every call, whatever calls were made before it,
\* returns what it returns as the only call on the generator.
C14_EvaluationIsPure ==
  /\ [][EvaluationKeepsGenerator]_vars
  /\ [](pc = "returned" => result = Alone(result))

\* a cylindrical call on the three-octave generator has returned
C14_CylindricalReturned ==
  /\ pc = "returned"
  /\ result # Null
  /\ result.op = "cylindrical2D"
  /\ octaves = Whole(3)
  /\ result.inner.kernel = <<Whole(1), Whole(-1), Whole(1)>>
  /\ perm # PermOf(InitialTable)


\* floor((ix + 1) * r) for the draw r that the shuffle step for index ix,
\* the (k+1)-th step, takes from sequence sq
DrawnIndex(sq, ix, k) ==
  LET r == DrawOf(sq, k) IN ((ix + 1) * r.n) \div r.d

\* the sequences all of whose draws give n = i
IdentityDraws ==
  {sq \in AllSeeds :
     \A k \in 0 .. 254 : DrawnIndex(sq, 255 - k, k) = 255 - k}

\* where the shuffle stands: it starts from 0..255 in order, the step for
\* index i is the (256 - i)-th, and 255 draws have been taken at its end
ShuffleProgress ==
  /\ pc = "shuffle" => (i \in 0 .. 255 /\ draws = 255 - i)
  /\ (pc = "shuffle" /\ i = 255) => p = [k \in 0 .. 255 |-> k]
  /\ pc \in {"done", "returned"} => (i = 0 /\ draws = 255)
  /\ (pc \in {"done", "returned"} /\ random.n \in IdentityDraws) =>
       p = [k \in 0 .. 255 |-> k]

\* what one step of the shuffle does
ShuffleStepSwaps ==
  (pc = "shuffle" /\ i > 0) =>
    LET n == DrawnIndex(random.n, i, draws)
    IN  /\ pc' = "shuffle"
        /\ i' = i - 1
        /\ draws' = draws + 1
        /\ random.n \in UnitSeeds => (0 <= n /\ n <= i)
        /\ n \in 0 .. 255 => p' = [p EXCEPT ![i] = p[n], ![n] = p[i]]

\* C15: the shuffle starts from 0..255 in order and takes 255 steps, for
\* i = 255 down to 1; each step draws once from the random source and swaps
\* the entries i and n = floor((i+1) * r); n is in 0..i when the draws are
\* in [0,1); when every draw gives n = i the table ends as 0..255 in order.
C15_ShuffleSteps ==
  /\ []ShuffleProgress
  /\ [][ShuffleStepSwaps]_vars

\* the last step is about to be taken on a table that earlier steps changed
C15_LastStep ==
  /\ pc = "shuffle"
  /\ i = 1
  /\ draws = 254
  /\ random.n \in UnitSeeds
  /\ random.n \notin IdentityDraws
  /\ p[255] # 255

\* the number of unit steps of a corner
StepsOf(corner) == Cardinality({a \in DOMAIN corner : corner[a] = 1})

\* every step of corner c is a step of corner e
Within(c, e) == \A a \in DOMAIN c : c[a] <= e[a]

Returned(name) == pc = "returned" /\ result.op = name

\* C16: in raw4D the ranks of the four axes are a permutation of 0..3 for
\* every (x0, y0, z0, w0): of two axes the one with the strictly greater
\* coordinate has the greater rank and of two axes with equal coordinates
\* the second-named has it, so equal coordinates give the ranks 0, 1, 2, 3;
\* corners 2, 3 and 4 take exactly 1, 2 and 3 unit steps, each corner's
\* steps contain the steps of the one before, and corner 5 takes all four.
C16_RanksArePermutation ==
  Returned("raw4D") =>
    LET r == result.rank
        o == result.origin
        c == result.corners
    IN  /\ {r[a] : a \in 1 .. 4} = 0 .. 3
        /\ \A a, b \in 1 .. 4 :
             a < b => IF SGt(o[a], o[b], 5) THEN r[a] > r[b] ELSE r[a] < r[b]
        /\ (\A a \in 1 .. 4 : o[a] = o[1]) => r = <<0, 1, 2, 3>>
        /\ StepsOf(c[2]) = 1 /\ StepsOf(c[3]) = 2 /\ StepsOf(c[4]) = 3
        /\ Within(c[2], c[3]) /\ Within(c[3], c[4])
        /\ c[1] = <<0, 0, 0, 0>> /\ c[5] = <<1, 1, 1, 1>>

\* raw4D has returned at a point whose four distances from the cell origin
\* are equal, with the second corner's one step along w
C16_AllEqual ==
  /\ Returned("raw4D")
  /\ \A a \in 1 .. 4 : result.origin[a] = result.origin[1]
  /\ result.corners[2] = <<0, 0, 0, 1>>

\* the six orderings of raw3D, as the second and the third corner
Orderings3D ==
  {<<<<1, 0, 0>>, <<1, 1, 0>>>>, <<<<1, 0, 0>>, <<1, 0, 1>>>>,
   <<<<0, 0, 1>>, <<1, 0, 1>>>>, <<<<0, 0, 1>>, <<0, 1, 1>>>>,
   <<<<0, 1, 0>>, <<0, 1, 1>>>>, <<<<0, 1, 0>>, <<1, 1, 0>>>>}

\* C17: in raw3D, for every (x0, y0, z0), the second and the third corner
\* are one of the six orderings: the second corner takes exactly one unit
\* step, along an axis no other axis has a greater coordinate than; the
\* third corner takes exactly two, that one included; no axis has a smaller
\* coordinate than the axis left unstepped; and of two axes with equal
\* coordinates the earlier-named (x before y, y before z, x before z) is
\* stepped first.
C17_SixOrderings ==
  Returned("raw3D") =>
    LET o == result.origin
        c2 == result.corners[2]
        c3 == result.corners[3]
        \* 0, 1 or 2 as the axis is stepped first, second or not
        late(a) == 2 - c2[a] - c3[a]
    IN  /\ <<c2, c3>> \in Orderings3D
        /\ StepsOf(c2) = 1 /\ StepsOf(c3) = 2 /\ Within(c2, c3)
        /\ \A a, b \in 1 .. 3 : c2[a] = 1 => ~JsLt(o[a], o[b])
        /\ \A a, b \in 1 .. 3 : c3[a] = 0 => ~JsLt(o[b], o[a])
        /\ \A a, b \in 1 .. 3 : (a < b /\ o[a] = o[b]) => late(a) < late(b)
        /\ result.corners[1] = <<0, 0, 0>> /\ result.corners[4] = <<1, 1, 1>>

\* raw3D has returned at a point where x0 = y0 and z0 is smaller
C17_TieOfXAndY ==
  /\ Returned("raw3D")
  /\ result.origin[1] = result.origin[2]
  /\ JsLt(result.origin[3], result.origin[1])
  /\ result.corners[2] = <<1, 0, 0>>
  /\ result.corners[3] = <<1, 1, 0>>

\* C18: in raw2D the middle corner (i1, j1) is (1, 0) when x0 > y0 and
\* (0, 1) otherwise, x0 = y0 included, so exactly one of i1, j1 is 1; the
\* first corner is (0, 0) and the third is (1, 1).
C18_MiddleCorner ==
  Returned("raw2D") =>
    LET o == result.origin
        c == result.corners
    IN  /\ c[2] = IF SGt(o[1], o[2], 3) THEN <<1, 0>> ELSE <<0, 1>>
        /\ (o[1] = o[2]) => c[2] = <<0, 1>>
        /\ c[2][1] + c[2][2] = 1
        /\ c[1] = <<0, 0>> /\ c[3] = <<1, 1>>

\* raw2D has returned at a point where x0 = y0
C18_TieOfXAndY ==
  /\ Returned("raw2D")
  /\ result.origin[1] = result.origin[2]
  /\ result.corners[2] = <<0, 1>>

Bit == {0, 1}
TableIndices == 0 .. (PermSize - 1)

\* the masked cell indices of the call that has returned
MaskedCell == [a \in DOMAIN result.cell |-> And255(result.cell[a])]

\* every index in the sequence is an index of the doubled tables
AllInTables(reads) == \A k \in DOMAIN reads : reads[k] \in TableIndices

\* C19: for every cell and every choice of corner offsets in {0, 1}, every
\* index at which raw2D, raw3D and raw4D read perm or permMod12 is in
\* 0 .. 511, every gradient index of raw2D and raw3D is in 0 .. 11 and
\* every gradient index of raw4D is in 0 .. 31.
C19_ReadsWithinTables ==
  /\ Returned("raw2D") =>
       LET m == MaskedCell
       IN  /\ \A di, dj \in Bit :
                /\ AllInTables(Reads2D(perm, m[1], m[2], di, dj))
                /\ Gi2D(perm, permMod12, m[1], m[2], di, dj) \in 0 .. (GradCount - 1)
           /\ \A c \in 1 .. 3 :
                /\ AllInTables(result.reads[c])
                /\ result.gi[c] \in 0 .. (GradCount - 1)
  /\ Returned("raw3D") =>
       LET m == MaskedCell
       IN  /\ \A o \in Bit \X Bit \X Bit :
                /\ AllInTables(Reads3D(perm, m[1], m[2], m[3], o))
                /\ Gi3D(perm, permMod12, m[1], m[2], m[3], o) \in 0 .. (GradCount - 1)
           /\ \A c \in 1 .. 4 :
                /\ AllInTables(result.reads[c])
                /\ result.gi[c] \in 0 .. (GradCount - 1)
  /\ Returned("raw4D") =>
       LET m == MaskedCell
       IN  /\ \A o \in Bit \X Bit \X Bit \X Bit :
                /\ AllInTables(Reads4D(perm, m[1], m[2], m[3], m[4], o))
                /\ Gi4D(perm, m[1], m[2], m[3], m[4], o) \in 0 .. (Grad4Count - 1)
           /\ \A c \in 1 .. 5 :
                /\ AllInTables(result.reads[c])
                /\ result.gi[c] \in 0 .. (Grad4Count - 1)

\* raw3D has returned from a cell whose masked indices are all 255, so the
\* last corner read the tables in their second half
C19_SecondHalfRead ==
  /\ Returned("raw3D")
  /\ MaskedCell = <<TableSize - 1, TableSize - 1, TableSize - 1>>
  /\ \A k \in 1 .. 3 : result.reads[4][k] >= TableSize

\* the gradient index of the base corner of the cell c: what the kernels
\* compute for offsets 0 after masking c
BaseGi2D(c) == Gi2D(perm, permMod12, And255(c[1]), And255(c[2]), 0, 0)
BaseGi3D(c) ==
  Gi3D(perm, permMod12, And255(c[1]), And255(c[2]), And255(c[3]), <<0, 0, 0>>)
BaseGi4D(c) ==
  Gi4D(perm, And255(c[1]), And255(c[2]), And255(c[3]), And255(c[4]),
       <<0, 0, 0, 0>>)

\* the cell reached from the cell of the call by the offsets o
CellAt(o) == [a \in DOMAIN result.cell |-> result.cell[a] + o[a]]

\* C20: the gradient index of a lattice point depends only on the point's
\* coordinates modulo 256 and not on the cell it is reached from: the index
\* raw2D, raw3D and raw4D compute for the corner at offsets in {0, 1} from
\* the cell (i, j, ..) is the index they compute for the base corner of the
\* cell (i + di, j + dj, ..), also when a masked coordinate is 255 and the
\* offset leads into the second half of the tables.
C20_GradientOfLatticePoint ==
  /\ Returned("raw2D") =>
       LET m == MaskedCell
       IN  /\ \A o \in Bit \X Bit :
                Gi2D(perm, permMod12, m[1], m[2], o[1], o[2]) = BaseGi2D(CellAt(o))
           /\ \A c \in 1 .. 3 : result.gi[c] = BaseGi2D(CellAt(result.corners[c]))
  /\ Returned("raw3D") =>
       LET m == MaskedCell
       IN  /\ \A o \in Bit \X Bit \X Bit :
                Gi3D(perm, permMod12, m[1], m[2], m[3], o) = BaseGi3D(CellAt(o))
           /\ \A c \in 1 .. 4 : result.gi[c] = BaseGi3D(CellAt(result.corners[c]))
  /\ Returned("raw4D") =>
       LET m == MaskedCell
       IN  /\ \A o \in Bit \X Bit \X Bit \X Bit :
                Gi4D(perm, m[1], m[2], m[3], m[4], o) = BaseGi4D(CellAt(o))
           /\ \A c \in 1 .. 5 : result.gi[c] = BaseGi4D(CellAt(result.corners[c]))

\* raw2D has returned from the cell (-1, -1): its masked indices are 255 and
\* its last corner is the base corner of the cell (0, 0)
C20_CrossingCorner ==
  /\ Returned("raw2D")
  /\ result.cell = <<-1, -1>>
  /\ MaskedCell = <<TableSize - 1, TableSize - 1>>
  /\ result.reads[3][1] = TableSize
  /\ result.gi[3] = BaseGi2D(<<0, 0>>)

\* every option check of lines 54-97 passes on the options o
EveryCheckPasses(o) ==
  /\ \A name \in {"amplitude", "frequency", "persistence", "min", "max"} :
       ~NotANumber(o, name)
  /\ ~OctavesRejected(o)
  /\ ~RandomRejected(o)
  /\ ~RangeRejected(EffectiveMin(o), EffectiveMax(o))

\* no table of the constructor exists
NoTables == p = EmptyTable /\ perm = EmptyTable /\ permMod12 = EmptyTable

\* a step that invokes the random source is made in the shuffle of a call
\* whose options passed every check
DrawsAfterChecks ==
  draws' # draws =>
    /\ draws' = draws + 1
    /\ pc = "shuffle"
    /\ error = ""
    /\ EveryCheckPasses(options)

\* C21: all option validation happens before the permutation table is
\* built: a construction call that fails with a configuration error has
\* invoked the random source zero times and has created no table, a call
\* some option check rejects fails, and the random source is invoked, and
\* the tables exist, only in a call whose options passed every check.
C21_ValidationBeforeShuffle ==
  /\ [](pc = "failed" => (error # "" /\ draws = 0 /\ NoTables))
  /\ []((pc # "new" /\ ~EveryCheckPasses(options)) => pc = "failed")
  /\ []((draws > 0 \/ ~NoTables) => (error = "" /\ EveryCheckPasses(options)))
  /\ [][DrawsAfterChecks]_vars

\* a call whose options have the right types and min above max, failed on
\* the last check
C21_FailedOnRange ==
  /\ pc = "failed"
  /\ error = "options.min must be less than options.max"
  /\ \A name \in {"amplitude", "frequency", "persistence", "min", "max"} :
       ~NotANumber(options, name)
  /\ draws = 0

\* what a raw call and a closure call select: cell, distances from the cell
\* origin, corner offsets, gradient components and the factor of the sum
Selection(r) ==
  [at |-> r.at, cell |-> r.cell, origin |-> r.origin, corners |-> r.corners,
   gradients |-> IF "gradients" \in DOMAIN r THEN r.gradients ELSE Gradients(r),
   factor |-> IF "factor" \in DOMAIN r THEN r.factor ELSE Factor(r)]

\* the closure call that corresponds to the raw call that returned r, and
\* the raw call that corresponds to the closure call that returned r
Counterpart(r) ==
  LET t == earlier
      a == r.at
  IN  CASE r.op = "raw2D" -> Noise2D(t, a[1], a[2])
        [] r.op = "raw3D" -> Noise3D(t, a[1], a[2], a[3])
        [] r.op = "raw4D" -> Noise4D(t, a[1], a[2], a[3], a[4])
        [] r.op = "noise2D" -> Raw2D(perm, permMod12, a[1], a[2])
        [] r.op = "noise3D" -> Raw3D(perm, permMod12, a[1], a[2], a[3])
        [] r.op = "noise4D" -> Raw4D(perm, a[1], a[2], a[3], a[4])

\* C22: given sources with the same draws, the closures of makeNoise2D,
\* makeNoise3D and makeNoise4D have the tables of the generator, and at
\* every point they select the same cell, the same distances from its
\* origin, the same corner offsets and the same gradient components as
\* raw2D, raw3D and raw4D (in 2D the first two components of the 3D
\* gradient, which is what dot multiplies), and scale the sum of the corner
\* contributions by the same factor, so they return the same value.
C22_FactoriesAgree ==
  pc = "returned" =>
    /\ earlier.random = random
    /\ earlier.perm = perm
    /\ earlier.permMod12 = permMod12
    /\ Selection(result) = Selection(Counterpart(result))
    /\ \A c \in DOMAIN result.corners :
         Len(Selection(result).gradients[c]) = Len(result.at)

\* the closure of makeNoise2D has returned at a point whose last corner has
\* gradient index 9: GRAD3D[9] is [0, -1, -1] and the closure used [0, -1]
C22_NoiseAtTruncatedGradient ==
  /\ Returned("noise2D")
  /\ Counterpart(result).gi[3] = 9
  /\ result.gradients[3] = <<0, -1>>

====
